---- MODULE Spec2Model ----
(***************************************************************************)
(* Monte Carlo risk engine: the two engines' run_mc, their samplers and    *)
(* path simulators (src/src/engine.py: bullet maturity with a Markov       *)
(* funding-freeze regime; src/MonteCarlo_Risk_Engine/src/engine.py:        *)
(* amortizing multi-tranche waterfall), and the dashboard's freeze switch  *)
(* (src/app.py).  Floats are modelled as exact rationals plus NaN.         *)
(***************************************************************************)
EXTENDS Integers, Sequences, FiniteSets, TLC

(***************************************************************************)
(* Exact arithmetic: a float is [n, d] with d > 0 in lowest terms;         *)
(* d = 0 is NaN, which every operation propagates and every comparison     *)
(* answers with FALSE (IEEE 754).                                          *)
(***************************************************************************)
Abs(a) == IF a < 0 THEN -a ELSE a

RECURSIVE Gcd(_, _)
Gcd(a, b) == IF b = 0 THEN a ELSE Gcd(b, a % b)

NaN == [n |-> 0, d |-> 0]

IsNaN(x) == x.d = 0

Q(a, b) ==
    LET g == Gcd(Abs(a), Abs(b))
        s == IF b < 0 THEN -1 ELSE 1
    IN  [n |-> s * (a \div g), d |-> s * (b \div g)]

F(a) == [n |-> a, d |-> 1]

Zero == F(0)

One == F(1)

Neg(x) == IF IsNaN(x) THEN NaN ELSE [n |-> -x.n, d |-> x.d]

Add(x, y) ==
    IF IsNaN(x) \/ IsNaN(y) THEN NaN
    ELSE LET l == (x.d \div Gcd(x.d, y.d)) * y.d
         IN  Q(x.n * (l \div x.d) + y.n * (l \div y.d), l)

Sub(x, y) == Add(x, Neg(y))

Mul(x, y) ==
    IF IsNaN(x) \/ IsNaN(y) THEN NaN
    ELSE IF x.n = 0 \/ y.n = 0 THEN Zero
    ELSE LET g1 == Gcd(Abs(x.n), y.d)
             g2 == Gcd(Abs(y.n), x.d)
         IN  [n |-> (x.n \div g1) * (y.n \div g2), d |-> (x.d \div g2) * (y.d \div g1)]

\* x / y for y # 0 (every divisor of the engines is non-zero: 12, H >= 1, total_bal > 0)
Div(x, y) ==
    IF IsNaN(x) \/ IsNaN(y) THEN NaN
    ELSE Mul(x, Q(y.d, y.n))

Lt(x, y) ==
    /\ ~IsNaN(x)
    /\ ~IsNaN(y)
    /\ LET l == (x.d \div Gcd(x.d, y.d)) * y.d
       IN  x.n * (l \div x.d) < y.n * (l \div y.d)

Le(x, y) == ~IsNaN(x) /\ ~IsNaN(y) /\ ~Lt(y, x)

Gt(x, y) == Lt(y, x)

Ge(x, y) == Le(y, x)

\* Python's builtin min(a, b) / max(a, b): the first argument unless the second beats it
PyMin(a, b) == IF Lt(b, a) THEN b ELSE a

PyMax(a, b) == IF Gt(b, a) THEN b ELSE a

\* numpy.clip(x, lo, hi) = minimum(maximum(x, lo), hi); NaN propagates, lo > hi gives hi
NpClip(x, lo, hi) ==
    IF IsNaN(x) \/ IsNaN(lo) \/ IsNaN(hi) THEN NaN
    ELSE LET m == IF Lt(x, lo) THEN lo ELSE x
         IN  IF Lt(hi, m) THEN hi ELSE m

RECURSIVE ISqrt(_, _)
ISqrt(a, r) == IF r * r >= a THEN r ELSE ISqrt(a, r + 1)

\* numpy.sqrt on the perfect-square rationals the configurations use; NaN below zero
NpSqrt(x) ==
    IF IsNaN(x) \/ x.n < 0 THEN NaN
    ELSE [n |-> ISqrt(x.n, 0), d |-> ISqrt(x.d, 0)]

RECURSIVE PowInt(_, _)
PowInt(x, k) == IF k = 0 THEN One ELSE Mul(x, PowInt(x, k - 1))

(***************************************************************************)
(* The random source.  numpy's Generator is a deterministic function of    *)
(* the seed and of the number of draws made so far: stream[k] memoises the *)
(* raw outputs of the generator seeded with k as they are first consumed,  *)
(* so two generators seeded alike read the same sequence.                  *)
(***************************************************************************)
Raw == {0, 1}

\* rng.normal(): a standard normal variate from one raw output
NormalOf(r) == IF r = 0 THEN F(-1) ELSE F(1)

\* rng.random(): a uniform variate in [0, 1) from one raw output
UniformOf(r) == Q(r, Cardinality(Raw))

(***************************************************************************)
(* Configurations (config.yaml): a dict is a function on its present keys. *)
(***************************************************************************)
Drop(f, k) == [x \in DOMAIN f \ {k} |-> f[x]]

Put(f, k, v) == [x \in DOMAIN f \cup {k} |-> IF x = k THEN v ELSE f[x]]

EmptyDict == [x \in {} |-> Zero]

Has(f, k) == k \in DOMAIN f

\* Bounds of the model
MaxN == 2

MaxH == 2

LongH == 12

MaxDraws == 12

MaxRuns == 2

RiskEngineBase ==
    [rho_default |-> Q(9, 25), rho_lgd |-> Zero, rho_margin |-> One,
     default_rate |-> [base |-> Q(1, 10), shock_coef |-> Q(1, 10),
                       clip_min |-> Zero, clip_max |-> Q(3, 20)],
     lgd |-> [base |-> Q(1, 2), shock_coef |-> Q(1, 4),
              clip_min |-> Q(3, 10), clip_max |-> One],
     margin_shock |-> [shock_coef |-> Q(1, 100),
                       clip_min |-> Q(-1, 200), clip_max |-> Q(1, 50)]]

BaseCfg(N, H) ==
    [seed |-> 1,
     sim |-> [N |-> N, H |-> H],
     portfolio |-> [notional |-> F(120), annual_coupon_rate |-> Q(3, 25)],
     risk_engine |-> RiskEngineBase]

\* a funding section that sets every key the regime engine reads
FundingFull ==
    [p_freeze_start |-> Q(1, 2), p_freeze_persist |-> Q(1, 4),
     refinance_fail_prob |-> Q(1, 4), refinance_fail_sens |-> Q(1, 4),
     forced_sale_haircut |-> Q(1, 5), haircut_sens |-> Q(1, 5),
     haircut_noise |-> Q(1, 5), haircut_min |-> Q(1, 20), haircut_max |-> Q(1, 2)]

\* a funding section that only sets the two freeze probabilities
FundingFreezeOnly == [p_freeze_start |-> Q(1, 2), p_freeze_persist |-> One]

\* a funding section that names the refinance and haircut parameters as the
\* design document does, not as the engine reads them
FundingRenamed ==
    [p_freeze_start |-> Q(1, 2), p_freeze_persist |-> Q(1, 2),
     refinance_fail_prob |-> Q(1, 4), refinance_fail_sensitivity |-> Zero,
     forced_sale_haircut_base |-> Q(1, 5), forced_sale_haircut_sensitivity |-> Zero,
     forced_sale_haircut_noise |-> Zero, forced_sale_haircut_min |-> Q(1, 20),
     forced_sale_haircut_max |-> Q(1, 2)]

\* configurations that break a documented invariant of RiskEngineConfig
InvalidCfgs ==
    { [BaseCfg(1, 1) EXCEPT !.risk_engine.rho_default = F(-1)],
      [BaseCfg(1, 1) EXCEPT !.risk_engine.rho_margin = F(2)],
      [BaseCfg(1, 1) EXCEPT !.risk_engine.lgd.clip_min = One,
                            !.risk_engine.lgd.clip_max = Q(3, 10)] }

\* configurations that lack a required key
MissingKeyCfgs ==
    { Drop(BaseCfg(1, 1), "seed"),
      Drop(BaseCfg(1, 1), "sim"),
      [BaseCfg(1, 1) EXCEPT !.sim = Drop(@, "N")],
      [BaseCfg(1, 1) EXCEPT !.sim = Drop(@, "H")],
      Drop(BaseCfg(1, 1), "portfolio"),
      [BaseCfg(1, 1) EXCEPT !.portfolio = Drop(@, "notional")],
      [BaseCfg(1, 1) EXCEPT !.portfolio = Drop(@, "annual_coupon_rate")],
      Drop(BaseCfg(1, 1), "risk_engine"),
      [BaseCfg(1, 1) EXCEPT !.risk_engine = Drop(@, "rho_lgd")],
      [BaseCfg(1, 1) EXCEPT !.risk_engine = Drop(@, "margin_shock")] }

ValidCfgs ==
    { BaseCfg(N, 1) : N \in {1, MaxN} } \cup { BaseCfg(1, H) : H \in 1..MaxH }
        \cup { [BaseCfg(1, 1) EXCEPT !.seed = 2] }

\* what config.yaml may hold for the regime engine (run.py, app.py)
RegimeCfgs ==
    ValidCfgs
        \cup { Put(BaseCfg(1, MaxH), "funding", f) :
                 f \in {FundingFull, FundingFreezeOnly, FundingRenamed} }
        \cup InvalidCfgs \cup MissingKeyCfgs

\* what config.yaml may hold when the dashboard loads it (app.py)
AppCfgs ==
    { BaseCfg(MaxN, 1), BaseCfg(1, MaxH),
      Put(BaseCfg(1, MaxH), "funding", FundingFull),
      Put(BaseCfg(1, MaxH), "funding", FundingFreezeOnly) }

\* what config.yaml may hold for the waterfall engine (MonteCarlo_Risk_Engine/run.py)
\* a funding section for the waterfall engine: per tranche a limit as a fraction
\* of notional and an annual funding rate
TrancheFunding ==
    [A |-> [limit_fraction_of_notional |-> Q(6, 10), funding_rate_annual |-> Q(5, 100)],
     B |-> [limit_fraction_of_notional |-> Q(2, 10), funding_rate_annual |-> Q(7, 100)],
     C |-> [limit_fraction_of_notional |-> Q(1, 10), funding_rate_annual |-> Q(10, 100)],
     WH |-> [limit_fraction_of_notional |-> Q(1, 10), funding_rate_annual |-> Q(8, 100)]]

\* configurations that differ only in tranche A's limit fraction, or only in
\* tranche A's funding rate
TrancheCfgs ==
    { Put(BaseCfg(1, MaxH + 1), "funding", f) :
        f \in { TrancheFunding,
                [TrancheFunding EXCEPT !.A.limit_fraction_of_notional = Q(1, 2)],
                [TrancheFunding EXCEPT !.A.funding_rate_annual = Q(4, 100)] } }

WaterfallCfgs ==
    ValidCfgs
        \cup { BaseCfg(1, MaxH + 1), BaseCfg(1, LongH),
               [BaseCfg(1, MaxH + 1) EXCEPT !.portfolio.notional = F(100)],
               [BaseCfg(1, MaxH) EXCEPT !.portfolio.notional = Zero] }
        \cup TrancheCfgs
        \cup InvalidCfgs \cup MissingKeyCfgs

\* one configuration run with one path and with two, on a seed of its own
PrefixCfgs == { [BaseCfg(N, 1) EXCEPT !.seed = 3] : N \in {1, 2} }

\* horizons of whole years and annual default rates, for the term probability
TermHs == {12, 24, 36}

TermRates == {Q(-1, 10), Zero, Q(1, 50), Q(1, 10), Q(1, 2), One, Q(3, 2)}

\* configurations whose sampled default_rate is the configured base: no shock,
\* and clip bounds that leave every rate of TermRates alone
TermCfgs ==
    { [BaseCfg(1, H) EXCEPT !.risk_engine.default_rate =
          [base |-> dr, shock_coef |-> Zero, clip_min |-> F(-1), clip_max |-> F(2)]] :
      H \in TermHs, dr \in TermRates }

\* one-year configurations for the loss allocation, and the balances it is
\* given: the allocation is a function of the four balances the loop leaves
\* and of total_loss; the loop leaves zero in exact arithmetic, and amounts
\* that are small against the notional once the repayments are rounded
CascadeCfgs == { c \in TermCfgs : c.sim.H = 12 }

Residues == {Zero, F(1), F(2)}

\* funding sections that freeze every month and vary the refinance parameters,
\* for the refinance cliff: base_fail + fail_sens can pass the cap of 0.995,
\* and the haircut can pass haircut_min and haircut_max
TailFundings ==
    { [FundingFull EXCEPT !.p_freeze_start = One,
                          !.refinance_fail_prob = b,
                          !.refinance_fail_sens = fs] :
      b \in {Q(1, 4), Q(9, 10)}, fs \in {Zero, Q(1, 4)} }

TailCfgs == { Put(BaseCfg(1, 1), "funding", f) : f \in TailFundings }

\* systemic values on both sides of zero, for comparing two paths
TailZs == {F(-2), F(-1), Zero, F(1), F(2)}

\* configurations for the sampler alone: the base one, whose clips bind at
\* both ends, one whose margin driver is mostly idiosyncratic and never
\* clipped, and the invalid ones
SamplerCfgs ==
    { BaseCfg(1, 1),
      [BaseCfg(1, 1) EXCEPT !.risk_engine.rho_margin = Q(9, 25),
                            !.risk_engine.margin_shock.clip_min = Q(-1, 10),
                            !.risk_engine.margin_shock.clip_max = Q(1, 10)] }
        \cup InvalidCfgs

(***************************************************************************)
(* Risk factor sampler (_sample_params of both engines).                   *)
(***************************************************************************)
RiskEngineKeys ==
    {"rho_default", "rho_lgd", "rho_margin", "default_rate", "lgd", "margin_shock"}

\* z_driver = sqrt(rho) * Z + sqrt(1 - rho) * e
z_driver(rho, Z, e) ==
    Add(Mul(NpSqrt(rho), Z), Mul(NpSqrt(Sub(One, rho)), e))

\* float(np.clip(value, clip_min, clip_max)) for one driver's parameters
clip_driver(value, d) == NpClip(value, d.clip_min, d.clip_max)

sample_default_rate(re, Z, e1) ==
    clip_driver(Add(re.default_rate.base,
                    Mul(re.default_rate.shock_coef, Neg(z_driver(re.rho_default, Z, e1)))),
                re.default_rate)

\* an lgd that moves with its driver, not against it
sample_lgd_unflipped(re, Z, e2) ==
    clip_driver(Add(re.lgd.base,
                    Mul(re.lgd.shock_coef, z_driver(re.rho_lgd, Z, e2))),
                re.lgd)

sample_lgd(re, Z, e2) ==
    clip_driver(Add(re.lgd.base,
                    Mul(re.lgd.shock_coef, Neg(z_driver(re.rho_lgd, Z, e2)))),
                re.lgd)

sample_margin_shock(re, Z, e3) ==
    clip_driver(Mul(re.margin_shock.shock_coef, z_driver(re.rho_margin, Z, e3)),
                re.margin_shock)

\* the tuple _sample_params returns
sample_params(re, Z, e1, e2, e3) ==
    [default_rate |-> sample_default_rate(re, Z, e1),
     lgd |-> sample_lgd(re, Z, e2),
     margin_shock |-> sample_margin_shock(re, Z, e3)]

NoDrivers == [default_rate |-> Zero, lgd |-> Zero, margin_shock |-> Zero]

(***************************************************************************)
(* Regime engine: what _simulate_one_path reads from the configuration.    *)
(***************************************************************************)
\* the built-in values of funding_cfg.get(key, default)
FundingDefault ==
    [p_freeze_start |-> Q(3, 50), p_freeze_persist |-> Q(7, 10),
     refinance_fail_prob |-> Q(1, 2), refinance_fail_sens |-> Q(7, 20),
     forced_sale_haircut |-> Q(3, 10), haircut_sens |-> Q(1, 4),
     haircut_noise |-> Q(1, 10), haircut_min |-> Q(1, 10), haircut_max |-> Q(7, 10)]

FundingKeys == DOMAIN FundingDefault

\* funding_cfg = cfg.get("funding", {})
funding_cfg(c) == IF Has(c, "funding") THEN c.funding ELSE EmptyDict

\* float(funding_cfg.get(key, default))
funding_get(c, key) ==
    IF Has(funding_cfg(c), key) THEN funding_cfg(c)[key] ELSE FundingDefault[key]

\* the keys _simulate_one_path subscripts: cfg["sim"]["H"], cfg["portfolio"][...]
simulate_keys_ok(c) ==
    /\ Has(c, "sim") /\ Has(c.sim, "H")
    /\ Has(c, "portfolio")
    /\ Has(c.portfolio, "notional")
    /\ Has(c.portfolio, "annual_coupon_rate")

\* a term probability that ignores the horizon: the annual probability
term_default_annual(default_rate, H) ==
    [x |-> Sub(One, NpClip(default_rate, Zero, One)), H |-> 12]

\* p_default_term = clip(1 - (1 - clip(default_rate, 0, 1)) ** (H / 12), 0, 1),
\* kept as the pair (x, H) that stands for 1 - x^(H/12): x^(H/12) is irrational
\* in general, x lies in [0, 1] (or is NaN), so the outer clip changes nothing
term_default(default_rate, H) ==
    [x |-> Sub(One, NpClip(default_rate, Zero, One)), H |-> H]

\* the float p_default_term when H / 12 is a whole number k: clip(1 - x^k, 0, 1)
term_value(p) == NpClip(Sub(One, PowInt(p.x, p.H \div 12)), Zero, One)

\* u < 1 - x^(H/12)  iff  x^(H/g) < (1 - u)^(12/g) with g = gcd(H, 12),
\* for u in [0, 1) and x in [0, 1]
LtTerm(u, p) ==
    LET g == Gcd(p.H, 12)
    IN  /\ ~IsNaN(p.x)
        /\ Lt(PowInt(p.x, p.H \div g), PowInt(Sub(One, u), 12 \div g))

\* rng.random() < p : one Bernoulli trial
bernoulli(u, p) == Lt(u, p)

\* a stress that grows with |Z| on both sides
stress_two_sided(Z) == PyMax(Neg(Z), Z)

\* stress = max(-Z, 0.0)
stress(Z) == PyMax(Neg(Z), Zero)

refinance_p_fail(c, Z) ==
    NpClip(Add(funding_get(c, "refinance_fail_prob"),
               Mul(funding_get(c, "refinance_fail_sens"), stress(Z))),
           Zero, Q(199, 200))

haircut(c, Z, noise) ==
    NpClip(Add(Add(funding_get(c, "forced_sale_haircut"),
                   Mul(funding_get(c, "haircut_sens"), stress(Z))),
               Mul(funding_get(c, "haircut_noise"), noise)),
           funding_get(c, "haircut_min"), funding_get(c, "haircut_max"))

(***************************************************************************)
(* The dashboard's configuration (app.py): deep_update, the freeze switch. *)
(***************************************************************************)
\* isinstance(v, dict): a value is a number (one of the model's rationals) or a
\* dict
isinstance_dict(v) == DOMAIN v # {"n", "d"}

\* dict.update: every key of u replaces the key of d, dicts included
dict_update(d, u) ==
    [k \in DOMAIN d \cup DOMAIN u |-> IF k \in DOMAIN u THEN u[k] ELSE d[k]]

\* for k, v in u.items(): recurse where v and d.get(k) are both dicts, else
\* d[k] = v; return d
RECURSIVE deep_update(_, _)
deep_update(d, u) ==
    [k \in DOMAIN d \cup DOMAIN u |->
        IF k \notin DOMAIN u THEN d[k]
        ELSE IF isinstance_dict(u[k]) /\ k \in DOMAIN d /\ isinstance_dict(d[k])
               THEN deep_update(d[k], u[k])
               ELSE u[k]]

\* the dicts deep_update is tried on: numbers, sections of numbers, sections of
\* sections
DictsOver(keys, values) == UNION { [ks -> values] : ks \in SUBSET keys }

MergeLeaves == {F(1), F(2)}

MergeSections == DictsOver({"N", "H"}, MergeLeaves)

MergeDicts == DictsOver({"seed", "sim"}, MergeLeaves \cup MergeSections)

\* a configuration three levels deep, and overrides that reach its third level
DeepCfg == [sim |-> [N |-> F(1), grid |-> [H |-> F(1), dt |-> F(2)]], seed |-> F(1)]

DeepOverrides ==
    { [sim |-> [grid |-> g]] : g \in DictsOver({"H", "dt"}, {F(2)}) \cup {F(2)} }

\* a switch that clears only p_freeze_persist
apply_freeze_switch_persist_only(c, freeze_on) ==
    LET c1 == IF Has(c, "funding") THEN c ELSE Put(c, "funding", EmptyDict)
    IN  IF freeze_on THEN c1
        ELSE Put(c1, "funding", Put(c1.funding, "p_freeze_persist", Zero))

apply_freeze_switch(c, freeze_on) ==
    LET c1 == IF Has(c, "funding") THEN c ELSE Put(c, "funding", EmptyDict)
    IN  IF freeze_on THEN c1
        ELSE Put(c1, "funding",
                 Put(Put(c1.funding, "p_freeze_start", Zero), "p_freeze_persist", Zero))

(***************************************************************************)
(* State.                                                                  *)
(***************************************************************************)
VARIABLES
    variant,        \* which engine's run_mc is running: "regime" or "waterfall"
    mode,           \* who called it: "cli" (run.py), "freeze_on" / "freeze_off" (app.py)
    cfg,            \* the configuration run_mc was given
    pc,             \* position of the run
    rng,            \* the run's random source: [key, pos]
    stream,         \* raw outputs of the generators, by seed
    i,              \* run_mc's loop index: paths completed so far
    out,            \* run_mc's list of path results
    Z,              \* the systemic factor of the current path
    drv,            \* the current path's sampled drivers
    rg,             \* locals of the regime _simulate_one_path
    wf,             \* locals of the waterfall _simulate_one_path
    sampler_calls,  \* sampler calls made by the run
    drawlog,        \* what each draw of the run was made for, in stream order
    prev,           \* the previous run of the session, once there is one
    runs,           \* runs started so far
    session_state,  \* the dashboard's st.session_state
    base_cfg,       \* the dashboard's config.yaml as loaded
    cfg_overrides   \* the dashboard's sidebar overrides

vars ==
    <<variant, mode, cfg, pc, rng, stream, i, out, Z, drv, rg, wf,
      sampler_calls, drawlog, prev, runs, session_state, base_cfg, cfg_overrides>>

StreamKeys == 0..(3 + MaxRuns)

RgIdle ==
    [t |-> 0, in_freeze |-> FALSE, outstanding |-> Zero, total_income |-> Zero,
     credit_loss |-> Zero, liquidity_loss |-> Zero,
     p_default_term |-> [x |-> One, H |-> 1], D |-> Zero,
     p_fail |-> Zero, hc |-> Zero, fail |-> FALSE]

WfIdle ==
    [t |-> 0, A_bal |-> Zero, B_bal |-> Zero, C_bal |-> Zero, WH_bal |-> Zero,
     outstanding |-> Zero, total_income |-> Zero,
     draw_A |-> Zero, draw_B |-> Zero, draw_C |-> Zero,
     total_loss |-> Zero, remaining |-> <<>>,
     A_loss |-> Zero, B_loss |-> Zero, C_loss |-> Zero, WH_loss |-> Zero]

NoRun == [variant |-> "none", cfg |-> EmptyDict, out |-> <<>>]

Init ==
    /\ variant = "none"
    /\ mode = "none"
    /\ cfg = EmptyDict
    /\ pc = "idle"
    /\ rng = [key |-> 0, pos |-> 0]
    /\ stream = [k \in StreamKeys |-> <<>>]
    /\ i = 0
    /\ out = <<>>
    /\ Z = Zero
    /\ drv = NoDrivers
    /\ rg = RgIdle
    /\ wf = WfIdle
    /\ sampler_calls = 0
    /\ drawlog = <<>>
    /\ prev = NoRun
    /\ runs = 0
    /\ session_state = EmptyDict
    /\ base_cfg = EmptyDict
    /\ cfg_overrides = EmptyDict

(***************************************************************************)
(* Drawing from the random source.                                         *)
(***************************************************************************)
\* a generator seeded from OS entropy: a new stream on every run
default_rng_unseeded(seed) == [key |-> 2 + runs, pos |-> 0]

\* a generator seeded from the seed and the number of paths
default_rng_by_paths(seed) == [key |-> seed + cfg.sim.N - 1, pos |-> 0]

\* np.random.default_rng(seed)
default_rng(seed) == [key |-> seed, pos |-> 0]

\* a generator made anew from the seed at every call: its n draws are the first n
advance_restarted(pos, n) == n

\* the generator's position after n more draws: the one generator object of
\* run_mc is passed to every call and keeps its state between calls
advance(pos, n) == pos + n

\* the draws a run may make: two regime paths of one month, frozen or not, fit
\* where the run is one of a pair that differs in N
DrawBudget == IF cfg \in PrefixCfgs THEN MaxDraws + 4 ELSE MaxDraws

\* the next Len(vals) raw outputs of the run's generator are vals
Consume(vals, what) ==
    LET n == Len(vals)
        s == stream[rng.key]
    IN  /\ rng.pos + n <= DrawBudget
        /\ \A j \in 1..n : rng.pos + j <= Len(s) => vals[j] = s[rng.pos + j]
        /\ rng' = [rng EXCEPT !.pos = advance(@, n)]
        /\ stream' = [stream EXCEPT ![rng.key] =
                        IF Len(s) >= rng.pos + n THEN s ELSE SubSeq(s, 1, rng.pos) \o vals]
        /\ drawlog' = drawlog \o [j \in 1..n |-> [path |-> i, what |-> what[j]]]

NoDraw == UNCHANGED <<rng, stream, drawlog>>

(***************************************************************************)
(* Callers: run.py of either engine, and the dashboard.  run.py is a process *)
(* of its own, started outside any dashboard session.                      *)
(***************************************************************************)
\* run.py: cfg = yaml.safe_load(config.yaml); run_mc(cfg)
cli_run ==
    /\ pc = "idle"
    /\ session_state = EmptyDict
    /\ \E v \in {"regime", "waterfall"} :
         \E c \in IF v = "regime" THEN RegimeCfgs ELSE WaterfallCfgs :
            /\ variant' = v
            /\ cfg' = c
    /\ mode' = "cli"
    /\ pc' = "enter"
    /\ runs' = 1
    /\ UNCHANGED <<rng, stream, i, out, Z, drv, rg, wf, sampler_calls, drawlog, prev, session_state, base_cfg, cfg_overrides>>

\* run.py on a config.yaml with a horizon of whole years
term_run ==
    /\ pc = "idle"
    /\ session_state = EmptyDict
    /\ \E c \in TermCfgs : cfg' = c
    /\ variant' = "regime"
    /\ mode' = "cli"
    /\ pc' = "enter"
    /\ runs' = 1
    /\ UNCHANGED <<rng, stream, i, out, Z, drv, rg, wf, sampler_calls, drawlog, prev, session_state, base_cfg, cfg_overrides>>

\* run.py on a config.yaml whose funding section freezes every month
tail_run ==
    /\ pc = "idle"
    /\ session_state = EmptyDict
    /\ \E c \in TailCfgs : cfg' = c
    /\ variant' = "regime"
    /\ mode' = "cli"
    /\ pc' = "enter"
    /\ runs' = 1
    /\ UNCHANGED <<rng, stream, i, out, Z, drv, rg, wf, sampler_calls, drawlog, prev, session_state, base_cfg, cfg_overrides>>

\* run.py of either engine on a config.yaml chosen for its risk_engine section
sampler_run ==
    /\ pc = "idle"
    /\ session_state = EmptyDict
    /\ variant' \in {"regime", "waterfall"}
    /\ \E c \in SamplerCfgs : cfg' = c
    /\ mode' = "cli"
    /\ pc' = "enter"
    /\ runs' = 1
    /\ UNCHANGED <<rng, stream, i, out, Z, drv, rg, wf, sampler_calls, drawlog, prev, session_state, base_cfg, cfg_overrides>>

\* if "has_run" not in st.session_state: has_run = False; if run_btn: has_run = True
has_run_after(state, run_btn) ==
    run_btn \/ (Has(state, "has_run") /\ state.has_run)

\* app.py, one run of the script: the gate on has_run (st.stop() while it is
\* false), then run_cached(apply_freeze_switch(cfg_base, freeze_on)) on the
\* regime engine
app_run ==
    /\ pc = "idle"
    /\ \E run_btn \in BOOLEAN :
         /\ session_state' = [has_run |-> has_run_after(session_state, run_btn)]
         /\ IF has_run_after(session_state, run_btn)
              THEN /\ \E c \in AppCfgs, freeze_on \in BOOLEAN :
                        /\ cfg' = apply_freeze_switch(c, freeze_on)
                        /\ mode' = IF freeze_on THEN "freeze_on" ELSE "freeze_off"
                   /\ variant' = "regime"
                   /\ pc' = "enter"
                   /\ runs' = 1
              ELSE UNCHANGED <<variant, mode, cfg, pc, runs>>
    /\ UNCHANGED <<rng, stream, i, out, Z, drv, rg, wf, sampler_calls, drawlog, prev,
                   base_cfg, cfg_overrides>>

\* run.py of either engine on a config.yaml of one path
prefix_run ==
    /\ pc = "idle"
    /\ session_state = EmptyDict
    /\ variant' \in {"regime", "waterfall"}
    /\ \E c \in PrefixCfgs : c.sim.N = 1 /\ cfg' = c
    /\ mode' = "cli"
    /\ pc' = "enter"
    /\ runs' = 1
    /\ UNCHANGED <<rng, stream, i, out, Z, drv, rg, wf, sampler_calls, drawlog, prev,
                   session_state, base_cfg, cfg_overrides>>

\* run.py once more on that config.yaml with sim.N raised by one
more_paths ==
    /\ pc = "returned"
    /\ mode = "cli"
    /\ runs < MaxRuns
    /\ cfg \in PrefixCfgs
    /\ cfg.sim.N = 1
    /\ prev' = [variant |-> variant, cfg |-> cfg, out |-> out]
    /\ cfg' = [cfg EXCEPT !.sim.N = @ + 1]
    /\ runs' = runs + 1
    /\ pc' = "enter"
    /\ i' = 0
    /\ out' = <<>>
    /\ Z' = Zero
    /\ drv' = NoDrivers
    /\ rg' = RgIdle
    /\ wf' = WfIdle
    /\ sampler_calls' = 0
    /\ drawlog' = <<>>
    /\ UNCHANGED <<variant, mode, rng, stream, session_state, base_cfg, cfg_overrides>>

\* run.py once more on the same config.yaml (the dashboard caches run_mc by cfg)
rerun ==
    /\ pc = "returned"
    /\ mode = "cli"
    /\ runs < MaxRuns
    /\ prev' = [variant |-> variant, cfg |-> cfg, out |-> out]
    /\ runs' = runs + 1
    /\ pc' = "enter"
    /\ i' = 0
    /\ out' = <<>>
    /\ Z' = Zero
    /\ drv' = NoDrivers
    /\ rg' = RgIdle
    /\ wf' = WfIdle
    /\ sampler_calls' = 0
    /\ drawlog' = <<>>
    /\ UNCHANGED <<variant, mode, cfg, rng, stream, session_state, base_cfg, cfg_overrides>>

(***************************************************************************)
(* run_mc (both engines).                                                  *)
(***************************************************************************)
\* a loop that stops one iteration early
range_has_next_short(k, N) == k < N - 1

\* for _ in range(N): is there a next iteration?
range_has_next(k, N) == k < N

\* rng = default_rng(cfg["seed"]); N = cfg["sim"]["N"]; out = []
run_mc_enter ==
    /\ pc = "enter"
    /\ IF ~Has(cfg, "seed")
         THEN pc' = "error" /\ UNCHANGED rng
         ELSE /\ rng' = default_rng(cfg.seed)
              /\ pc' = IF Has(cfg, "sim") /\ Has(cfg.sim, "N") THEN "loop" ELSE "error"
    /\ UNCHANGED <<variant, mode, cfg, stream, i, out, Z, drv, rg, wf,
                   sampler_calls, drawlog, prev, runs, session_state, base_cfg, cfg_overrides>>

\* the loop head: start the next path, or return pd.DataFrame(out)
run_mc_loop ==
    /\ pc = "loop"
    /\ pc' = IF range_has_next(i, cfg.sim.N)
               THEN (IF variant = "regime" THEN "systemic" ELSE "params")
               ELSE "returned"
    /\ UNCHANGED <<variant, mode, cfg, rng, stream, i, out, Z, drv, rg, wf,
                   sampler_calls, drawlog, prev, runs, session_state, base_cfg, cfg_overrides>>

(***************************************************************************)
(* Regime engine (src/src/engine.py).                                      *)
(***************************************************************************)
\* a systemic sampler that draws twice and keeps the second draw
sample_systemic_twice ==
    /\ pc = "systemic"
    /\ \E r0 \in Raw, r \in Raw :
         /\ Consume(<<r0, r>>, <<"Z", "Z">>)
         /\ Z' = NormalOf(r)
    /\ sampler_calls' = sampler_calls + 1
    /\ pc' = "params"
    /\ UNCHANGED <<variant, mode, cfg, i, out, drv, rg, wf, prev, runs, session_state, base_cfg, cfg_overrides>>

\* Z = _sample_systemic(rng)
sample_systemic ==
    /\ pc = "systemic"
    /\ \E r \in Raw :
         /\ Consume(<<r>>, <<"Z">>)
         /\ Z' = NormalOf(r)
    /\ sampler_calls' = sampler_calls + 1
    /\ pc' = "params"
    /\ UNCHANGED <<variant, mode, cfg, i, out, drv, rg, wf, prev, runs, session_state, base_cfg, cfg_overrides>>

\* dr, lg, ms = _sample_params(rng, cfg, Z)
sample_params_regime ==
    /\ pc = "params"
    /\ variant = "regime"
    /\ sampler_calls' = sampler_calls + 1
    /\ IF ~Has(cfg, "risk_engine")
         THEN pc' = "error" /\ NoDraw /\ UNCHANGED drv
         ELSE \E e1 \in Raw, e2 \in Raw, e3 \in Raw :
                /\ Consume(<<e1, e2, e3>>, <<"e1", "e2", "e3">>)
                /\ IF RiskEngineKeys \subseteq DOMAIN cfg.risk_engine
                     THEN /\ drv' = sample_params(cfg.risk_engine, Z,
                                                  NormalOf(e1), NormalOf(e2), NormalOf(e3))
                          /\ pc' = "simulate"
                     ELSE pc' = "error" /\ UNCHANGED drv
    /\ UNCHANGED <<variant, mode, cfg, i, out, Z, rg, wf, prev, runs, session_state, base_cfg, cfg_overrides>>

\* coupon_m = (annual_coupon_rate + margin_shock) / 12
coupon_m(c, margin_shock) ==
    Div(Add(c.portfolio.annual_coupon_rate, margin_shock), F(12))

\* a simulator whose freeze state and income outlive the call
regime_path_enter_carrying ==
    /\ pc = "simulate"
    /\ variant = "regime"
    /\ IF simulate_keys_ok(cfg)
         THEN /\ rg' = [rg EXCEPT
                          !.t = 0,
                          !.outstanding = cfg.portfolio.notional,
                          !.p_default_term = term_default(drv.default_rate, cfg.sim.H)]
              /\ pc' = "month"
         ELSE pc' = "error" /\ UNCHANGED rg
    /\ NoDraw
    /\ UNCHANGED <<variant, mode, cfg, i, out, Z, drv, wf, sampler_calls, prev, runs, session_state, base_cfg, cfg_overrides>>

\* _simulate_one_path up to the loop: read the configuration, initialise the locals
regime_path_enter ==
    /\ pc = "simulate"
    /\ variant = "regime"
    /\ IF simulate_keys_ok(cfg)
         THEN /\ rg' = [RgIdle EXCEPT
                          !.outstanding = cfg.portfolio.notional,
                          !.p_default_term = term_default(drv.default_rate, cfg.sim.H)]
              /\ pc' = "month"
         ELSE pc' = "error" /\ UNCHANGED rg
    /\ NoDraw
    /\ UNCHANGED <<variant, mode, cfg, i, out, Z, drv, wf, sampler_calls, prev, runs, session_state, base_cfg, cfg_overrides>>

\* a freeze state drawn afresh every month, whatever the month before
freeze_next_memoryless(in_freeze, u, c) == bernoulli(u, funding_get(c, "p_freeze_start"))

\* the freeze state of the next month, from this month's state and one uniform draw
freeze_next(in_freeze, u, c) ==
    IF in_freeze
      THEN bernoulli(u, funding_get(c, "p_freeze_persist"))
      ELSE bernoulli(u, funding_get(c, "p_freeze_start"))

\* every month: the freeze transition, then total_income += outstanding * coupon_m
month_accrual(l, u, c, d) ==
    [l EXCEPT !.in_freeze = freeze_next(l.in_freeze, u, c),
              !.total_income = Add(@, Mul(l.outstanding, coupon_m(c, d.margin_shock)))]

\* t == H - 1: D = 1 if rng.random() < p_default_term; credit_loss = notional * D * lgd
default_event(l, u, c, d) ==
    LET D == IF LtTerm(u, l.p_default_term) THEN One ELSE Zero
    IN  [l EXCEPT !.D = D,
                  !.credit_loss = Mul(Mul(c.portfolio.notional, D), d.lgd)]

\* the proceeds of the forced sale booked as the loss
forced_sale_proceeds(notional, hc) == Mul(notional, Sub(One, hc))

\* liquidity_loss = notional - forced_value, forced_value = notional * (1 - hc)
forced_sale_loss(notional, hc) == Sub(notional, Mul(notional, Sub(One, hc)))

\* a refinance cliff that a defaulted path is spared
refinance_event_unless_defaulted(l, noise, u, c, z) ==
    LET p_fail == refinance_p_fail(c, z)
        hc == haircut(c, z, noise)
        fail == l.D = Zero /\ bernoulli(u, p_fail)
    IN  [l EXCEPT !.p_fail = p_fail,
                  !.hc = hc,
                  !.fail = fail,
                  !.liquidity_loss =
                     IF fail THEN forced_sale_loss(c.portfolio.notional, hc) ELSE @]

\* t == H - 1 and in_freeze: the refinance cliff
refinance_event(l, noise, u, c, z) ==
    LET p_fail == refinance_p_fail(c, z)
        hc == haircut(c, z, noise)
        fail == bernoulli(u, p_fail)
    IN  [l EXCEPT !.p_fail = p_fail,
                  !.hc = hc,
                  !.fail = fail,
                  !.liquidity_loss =
                     IF fail THEN forced_sale_loss(c.portfolio.notional, hc) ELSE @]

\* a settlement that charges the credit loss only
settle_credit_only(l) ==
    [l EXCEPT !.total_income = Sub(@, l.credit_loss),
              !.outstanding = Zero]

\* t == H - 1: total_income -= credit_loss + liquidity_loss; outstanding = 0
settle(l) ==
    [l EXCEPT !.total_income = Sub(@, Add(l.credit_loss, l.liquidity_loss)),
              !.outstanding = Zero]

\* the dict _simulate_one_path returns
regime_result(l, z, d) ==
    [total_net_income |-> l.total_income,
     credit_loss |-> l.credit_loss,
     liquidity_loss |-> l.liquidity_loss,
     Z_sys |-> z,
     default_rate |-> d.default_rate,
     lgd |-> d.lgd,
     margin_shock |-> d.margin_shock]

\* out.append(res)
append_result(table, res) == Append(table, res)

\* the path returns and run_mc appends its result
regime_return(l) ==
    /\ rg' = l
    /\ out' = append_result(out, regime_result(l, Z, drv))
    /\ i' = i + 1
    /\ pc' = "loop"

\* the refinance cliff evaluated whatever the regime
refinance_applies_always(in_freeze) == TRUE

\* a cliff that is never evaluated
refinance_applies_never(in_freeze) == FALSE

\* if in_freeze: the refinance cliff only matters in the freeze regime
refinance_applies(in_freeze) == in_freeze

\* a terminal event in whatever month comes first
is_terminal_at_once(t, H) == TRUE

\* is month t the terminal month?
is_terminal(t, H) == t = H - 1

\* one iteration of the loop over the months; the last one holds the terminal event
regime_month ==
    /\ pc = "month"
    /\ IF ~is_terminal(rg.t, cfg.sim.H)
         THEN \E r \in Raw :
                /\ Consume(<<r>>, <<"freeze">>)
                /\ rg' = [month_accrual(rg, UniformOf(r), cfg, drv) EXCEPT !.t = @ + 1]
                /\ UNCHANGED <<pc, out, i>>
         ELSE \E r \in Raw, rd \in Raw :
                LET l1 == month_accrual(rg, UniformOf(r), cfg, drv)
                    l2 == default_event(l1, UniformOf(rd), cfg, drv)
                IN  IF refinance_applies(l1.in_freeze)
                      THEN \E rn \in Raw, ru \in Raw :
                             /\ Consume(<<r, rd, rn, ru>>,
                                        <<"freeze", "default", "noise", "refi">>)
                             /\ regime_return(settle(
                                  refinance_event(l2, NormalOf(rn), UniformOf(ru), cfg, Z)))
                      ELSE /\ Consume(<<r, rd>>, <<"freeze", "default">>)
                           /\ regime_return(settle(l2))
    /\ UNCHANGED <<variant, mode, cfg, Z, drv, wf, sampler_calls, prev, runs, session_state, base_cfg, cfg_overrides>>

(***************************************************************************)
(* Waterfall engine (src/MonteCarlo_Risk_Engine/src/engine.py).            *)
(***************************************************************************)
\* res = _simulate_one_path(cfg, *_sample_params(rng, cfg)): the sampler call
sample_params_waterfall ==
    /\ pc = "params"
    /\ variant = "waterfall"
    /\ sampler_calls' = sampler_calls + 1
    /\ IF ~Has(cfg, "risk_engine")
         THEN pc' = "error" /\ NoDraw /\ UNCHANGED <<Z, drv>>
         ELSE \E z \in Raw, e1 \in Raw, e2 \in Raw, e3 \in Raw :
                /\ Consume(<<z, e1, e2, e3>>, <<"Z", "e1", "e2", "e3">>)
                /\ Z' = NormalOf(z)
                /\ IF RiskEngineKeys \subseteq DOMAIN cfg.risk_engine
                     THEN /\ drv' = sample_params(cfg.risk_engine, NormalOf(z),
                                                  NormalOf(e1), NormalOf(e2), NormalOf(e3))
                          /\ pc' = "simulate"
                     ELSE pc' = "error" /\ UNCHANGED drv
    /\ UNCHANGED <<variant, mode, cfg, i, out, rg, wf, prev, runs, session_state, base_cfg, cfg_overrides>>

A_limit(notional) == Mul(notional, Q(6, 10))

B_limit(notional) == Mul(notional, Q(2, 10))

C_limit(notional) == Mul(notional, Q(1, 10))

WH_limit(notional) == Mul(notional, Q(1, 10))

A_rate == Div(Q(5, 100), F(12))

B_rate == Div(Q(7, 100), F(12))

C_rate == Div(Q(10, 100), F(12))

WH_rate == Div(Q(8, 100), F(12))

\* a repayment of a twelfth of the notional, whatever the horizon
monthly_principal_per_year(c) == Div(c.portfolio.notional, F(12))

\* monthly_principal = notional / H
monthly_principal(c) == Div(c.portfolio.notional, F(c.sim.H))

\* _simulate_one_path up to the loop
waterfall_path_enter ==
    /\ pc = "simulate"
    /\ variant = "waterfall"
    /\ IF simulate_keys_ok(cfg)
         THEN /\ wf' = [WfIdle EXCEPT
                          !.WH_bal = cfg.portfolio.notional,
                          !.outstanding = cfg.portfolio.notional]
              /\ pc' = "fund"
         ELSE pc' = "error" /\ UNCHANGED wf
    /\ NoDraw
    /\ UNCHANGED <<variant, mode, cfg, i, out, Z, drv, rg, sampler_calls, prev, runs, session_state, base_cfg, cfg_overrides>>

\* a draw that takes the whole funding need, whatever the limit
tranche_draw_unlimited(limit, bal, funding_needed) == funding_needed

\* a draw that takes half the room under the limit at most
tranche_draw_half_room(limit, bal, funding_needed) ==
    PyMin(Div(Sub(limit, bal), F(2)), funding_needed)

\* one tranche's draw: min(limit - balance, funding_needed)
tranche_draw(limit, bal, funding_needed) == PyMin(Sub(limit, bal), funding_needed)

\* a residual that leaves the C tranche out of the funded amount
warehouse_residual_without_C(outstanding, A, B, C) ==
    PyMax(Sub(outstanding, Add(A, B)), Zero)

\* WH_bal = max(outstanding - (A_bal + B_bal + C_bal), 0)
warehouse_residual(outstanding, A, B, C) ==
    PyMax(Sub(outstanding, Add(Add(A, B), C)), Zero)

\* a funding draw that fills the junior tranche first: C, then B, then A
funding_step_junior_first(l, notional) ==
    LET need0 == Sub(l.outstanding, Add(Add(l.A_bal, l.B_bal), l.C_bal))
        draw_C == tranche_draw(C_limit(notional), l.C_bal, need0)
        C == Add(l.C_bal, draw_C)
        need1 == Sub(need0, draw_C)
        draw_B == tranche_draw(B_limit(notional), l.B_bal, need1)
        B == Add(l.B_bal, draw_B)
        need2 == Sub(need1, draw_B)
        draw_A == tranche_draw(A_limit(notional), l.A_bal, need2)
        A == Add(l.A_bal, draw_A)
    IN  [l EXCEPT !.A_bal = A, !.B_bal = B, !.C_bal = C,
                  !.draw_A = draw_A, !.draw_B = draw_B, !.draw_C = draw_C,
                  !.WH_bal = warehouse_residual(l.outstanding, A, B, C)]

\* if t > 0: the funding draw, senior first, the warehouse taking the remainder
funding_step(l, notional) ==
    LET need0 == Sub(l.outstanding, Add(Add(l.A_bal, l.B_bal), l.C_bal))
        draw_A == tranche_draw(A_limit(notional), l.A_bal, need0)
        A == Add(l.A_bal, draw_A)
        need1 == Sub(need0, draw_A)
        draw_B == tranche_draw(B_limit(notional), l.B_bal, need1)
        B == Add(l.B_bal, draw_B)
        need2 == Sub(need1, draw_B)
        draw_C == tranche_draw(C_limit(notional), l.C_bal, need2)
        C == Add(l.C_bal, draw_C)
    IN  [l EXCEPT !.A_bal = A, !.B_bal = B, !.C_bal = C,
                  !.draw_A = draw_A, !.draw_B = draw_B, !.draw_C = draw_C,
                  !.WH_bal = warehouse_residual(l.outstanding, A, B, C)]

\* a funding draw in every month, the first included
funding_month_always(t) == TRUE

\* if t > 0: month 0 is funded by the warehouse alone
funding_month(t) == t > 0

waterfall_fund ==
    /\ pc = "fund"
    /\ wf' = IF funding_month(wf.t)
               THEN funding_step(wf, cfg.portfolio.notional)
               ELSE [wf EXCEPT !.draw_A = Zero, !.draw_B = Zero, !.draw_C = Zero]
    /\ pc' = "accrue"
    /\ NoDraw
    /\ UNCHANGED <<variant, mode, cfg, i, out, Z, drv, rg, sampler_calls, prev, runs, session_state, base_cfg, cfg_overrides>>

\* a funding cost that leaves the warehouse line out
funding_cost_without_warehouse(l) ==
    Add(Add(Mul(l.A_bal, A_rate), Mul(l.B_bal, B_rate)), Mul(l.C_bal, C_rate))

\* funding_cost = A_bal*A_rate + B_bal*B_rate + C_bal*C_rate + WH_bal*WH_rate
funding_cost(l) ==
    Add(Add(Add(Mul(l.A_bal, A_rate), Mul(l.B_bal, B_rate)), Mul(l.C_bal, C_rate)),
        Mul(l.WH_bal, WH_rate))

\* a repayment split in four equal parts
pro_rata_equal_split(bal, repay, total_bal) == Sub(bal, Div(repay, F(4)))

\* one balance after the pro-rata repayment: bal - repay * bal / total_bal
pro_rata(bal, repay, total_bal) == Sub(bal, Div(Mul(repay, bal), total_bal))

\* the pro-rata repayment of the four balances, then outstanding -= repay
repay_step(l, repay) ==
    LET total_bal == Add(Add(Add(l.A_bal, l.B_bal), l.C_bal), l.WH_bal)
        paid == IF Gt(total_bal, Zero)
                  THEN [l EXCEPT !.A_bal = pro_rata(l.A_bal, repay, total_bal),
                                 !.B_bal = pro_rata(l.B_bal, repay, total_bal),
                                 !.C_bal = pro_rata(l.C_bal, repay, total_bal),
                                 !.WH_bal = pro_rata(l.WH_bal, repay, total_bal)]
                  ELSE l
    IN  [paid EXCEPT !.outstanding = Sub(l.outstanding, repay)]

\* the rest of month t: accrual, repayment, and the loop's next t
waterfall_accrue_repay ==
    /\ pc = "accrue"
    /\ LET income == Sub(Mul(wf.outstanding, coupon_m(cfg, drv.margin_shock)),
                         funding_cost(wf))
           l == repay_step([wf EXCEPT !.total_income = Add(@, income)],
                           monthly_principal(cfg))
       IN  IF wf.t + 1 < cfg.sim.H
             THEN wf' = [l EXCEPT !.t = @ + 1] /\ pc' = "fund"
             ELSE wf' = l /\ pc' = "allocate"
    /\ NoDraw
    /\ UNCHANGED <<variant, mode, cfg, i, out, Z, drv, rg, sampler_calls, prev, runs, session_state, base_cfg, cfg_overrides>>

\* max where min is meant
absorb_max(bal, remaining_loss) == PyMax(bal, remaining_loss)

\* one step of the cascade: min(balance, remaining_loss)
absorb(bal, remaining_loss) == PyMin(bal, remaining_loss)

\* total_loss = notional * min(default_rate * (H / 12), 1) * lgd
total_loss_of(c, d) ==
    Mul(Mul(c.portfolio.notional, PyMin(Mul(d.default_rate, Q(c.sim.H, 12)), One)), d.lgd)

\* an allocation that starts with the senior tranche: A, B, C, the warehouse
loss_allocation_senior_first(l, total_loss) ==
    LET A_loss == absorb(l.A_bal, total_loss)
        r1 == Sub(total_loss, A_loss)
        B_loss == absorb(l.B_bal, r1)
        r2 == Sub(r1, B_loss)
        C_loss == absorb(l.C_bal, r2)
        r3 == Sub(r2, C_loss)
        WH_loss == absorb(l.WH_bal, r3)
        r4 == Sub(r3, WH_loss)
    IN  [l EXCEPT !.total_loss = total_loss,
                  !.remaining = <<r1, r2, r3, r4>>,
                  !.A_loss = A_loss, !.B_loss = B_loss,
                  !.C_loss = C_loss, !.WH_loss = WH_loss,
                  !.total_income = Sub(@, total_loss)]

\* the default loss allocation, C then B then A then the warehouse
loss_allocation(l, total_loss) ==
    LET C_loss == absorb(l.C_bal, total_loss)
        r1 == Sub(total_loss, C_loss)
        B_loss == absorb(l.B_bal, r1)
        r2 == Sub(r1, B_loss)
        A_loss == absorb(l.A_bal, r2)
        r3 == Sub(r2, A_loss)
        WH_loss == absorb(l.WH_bal, r3)
        r4 == Sub(r3, WH_loss)
    IN  [l EXCEPT !.total_loss = total_loss,
                  !.remaining = <<r1, r2, r3, r4>>,
                  !.A_loss = A_loss, !.B_loss = B_loss,
                  !.C_loss = C_loss, !.WH_loss = WH_loss,
                  !.total_income = Sub(@, total_loss)]

\* the dict _simulate_one_path returns
waterfall_result(l, d) ==
    [total_net_income |-> l.total_income,
     default_rate |-> d.default_rate,
     lgd |-> d.lgd,
     margin_shock |-> d.margin_shock,
     A_loss |-> l.A_loss, B_loss |-> l.B_loss,
     C_loss |-> l.C_loss, WH_loss |-> l.WH_loss]

\* after the loop: allocate the default loss, return, records.append(res)
waterfall_allocate ==
    /\ pc = "allocate"
    /\ LET l == loss_allocation(wf, total_loss_of(cfg, drv))
       IN  /\ wf' = l
           /\ out' = append_result(out, waterfall_result(l, drv))
    /\ i' = i + 1
    /\ pc' = "loop"
    /\ NoDraw
    /\ UNCHANGED <<variant, mode, cfg, Z, drv, rg, sampler_calls, prev, runs, session_state, base_cfg, cfg_overrides>>

Next ==
    \/ cli_run
    \/ app_run
    \/ rerun
    \/ run_mc_enter
    \/ run_mc_loop
    \/ sample_systemic
    \/ sample_params_regime
    \/ regime_path_enter
    \/ regime_month
    \/ sample_params_waterfall
    \/ waterfall_path_enter
    \/ waterfall_fund
    \/ waterfall_accrue_repay
    \/ waterfall_allocate

Spec == Init /\ [][Next]_vars

\* the regime engine on horizons of whole years, up to the path's first month
NextTerm ==
    \/ term_run
    \/ run_mc_enter
    \/ run_mc_loop
    \/ sample_systemic
    \/ sample_params_regime
    \/ regime_path_enter

SpecTerm == Init /\ [][NextTerm]_vars

\* the regime engine on one-month paths that are frozen at maturity
NextTail ==
    \/ tail_run
    \/ run_mc_enter
    \/ run_mc_loop
    \/ sample_systemic
    \/ sample_params_regime
    \/ regime_path_enter
    \/ regime_month

SpecTail == Init /\ [][NextTail]_vars

\* either engine up to the return of the first path's sampler
NextSampler ==
    \/ sampler_run
    \/ run_mc_enter
    \/ run_mc_loop
    \/ sample_systemic
    \/ sample_params_regime
    \/ sample_params_waterfall

SpecSampler == Init /\ [][NextSampler]_vars

\* the waterfall engine at the loss allocation of a one-path run: the sampler
\* has made its four draws, the loop over the months has ended
InitCascade ==
    /\ variant = "waterfall"
    /\ mode = "cli"
    /\ cfg \in CascadeCfgs
    /\ pc = "allocate"
    /\ \E z \in Raw, e1 \in Raw, e2 \in Raw, e3 \in Raw :
         /\ rng = [key |-> cfg.seed, pos |-> 4]
         /\ stream = [k \in StreamKeys |-> IF k = cfg.seed THEN <<z, e1, e2, e3>> ELSE <<>>]
         /\ Z = NormalOf(z)
         /\ drv = sample_params(cfg.risk_engine, NormalOf(z),
                                NormalOf(e1), NormalOf(e2), NormalOf(e3))
    /\ i = 0
    /\ out = <<>>
    /\ rg = RgIdle
    /\ \E A \in Residues, B \in Residues, C \in Residues, WH \in Residues :
         wf = [WfIdle EXCEPT !.t = cfg.sim.H - 1,
                             !.A_bal = A, !.B_bal = B, !.C_bal = C, !.WH_bal = WH,
                             !.outstanding = Add(Add(Add(A, B), C), WH)]
    /\ sampler_calls = 1
    /\ drawlog = [k \in 1..4 |-> [path |-> 0, what |-> <<"Z", "e1", "e2", "e3">>[k]]]
    /\ prev = NoRun
    /\ runs = 1
    /\ session_state = EmptyDict
    /\ base_cfg = EmptyDict
    /\ cfg_overrides = EmptyDict

NextCascade ==
    \/ waterfall_allocate
    \/ run_mc_loop

SpecCascade == InitCascade /\ [][NextCascade]_vars

\* either engine on one configuration, run with one path and then with two
NextPrefix ==
    \/ prefix_run
    \/ more_paths
    \/ run_mc_enter
    \/ run_mc_loop
    \/ sample_systemic
    \/ sample_params_regime
    \/ regime_path_enter
    \/ regime_month
    \/ sample_params_waterfall
    \/ waterfall_path_enter
    \/ waterfall_fund
    \/ waterfall_accrue_repay
    \/ waterfall_allocate

SpecPrefix == Init /\ [][NextPrefix]_vars

\* app.py building the configuration of a run: a config.yaml and sidebar
\* overrides, before cfg_base = copy.deepcopy(base_cfg)
InitMerge ==
    /\ variant = "none"
    /\ mode = "none"
    /\ cfg = EmptyDict
    /\ pc = "loaded"
    /\ rng = [key |-> 0, pos |-> 0]
    /\ stream = [k \in StreamKeys |-> <<>>]
    /\ i = 0
    /\ out = <<>>
    /\ Z = Zero
    /\ drv = NoDrivers
    /\ rg = RgIdle
    /\ wf = WfIdle
    /\ sampler_calls = 0
    /\ drawlog = <<>>
    /\ prev = NoRun
    /\ runs = 0
    /\ session_state = EmptyDict
    /\ \/ base_cfg \in MergeDicts /\ cfg_overrides \in MergeDicts
       \/ base_cfg = DeepCfg /\ cfg_overrides \in DeepOverrides

\* cfg_base = copy.deepcopy(base_cfg); deep_update(cfg_base, cfg_overrides)
build_cfg ==
    /\ pc = "loaded"
    /\ cfg' = deep_update(base_cfg, cfg_overrides)
    /\ pc' = "built"
    /\ NoDraw
    /\ UNCHANGED <<variant, mode, i, out, Z, drv, rg, wf, sampler_calls, prev, runs,
                   session_state, base_cfg, cfg_overrides>>

NextMerge == build_cfg

SpecMerge == InitMerge /\ [][NextMerge]_vars

(***************************************************************************)
(* Properties.                                                             *)
(***************************************************************************)
\* the drivers of the current path have been sampled
Sampled ==
    \/ pc \in {"simulate", "month", "fund", "accrue", "allocate"}
    \/ pc \in {"loop", "returned"} /\ i > 0

\* the locals of the last simulated path are those of a finished path
PathDone == pc \in {"loop", "returned"} /\ i > 0

\* C1: determinism of run_mc, both engines: two runs with the same seed, the
\* same N and the same configuration, reading the draws their seed determines,
\* return tables that are equal row by row and field by field.
C1_Determinism ==
    (pc = "returned" /\ prev.variant = variant /\ prev.cfg = cfg) => out = prev.out

C1_Witness ==
    /\ pc = "returned"
    /\ prev.variant = "regime"
    /\ variant = "regime"
    /\ prev.cfg = cfg
    /\ Len(out) = 2
    /\ out[1] # out[2]
    /\ out = prev.out

\* C2: waterfall conservation: in every month, after the funding draw and after
\* the pro-rata repayment, A_bal + B_bal + C_bal + WH_bal = outstanding.
C2_Conservation ==
    (variant = "waterfall" /\ pc \in {"fund", "accrue", "allocate"}) =>
        Add(Add(Add(wf.A_bal, wf.B_bal), wf.C_bal), wf.WH_bal) = wf.outstanding

C2_Witness ==
    /\ variant = "waterfall"
    /\ pc = "fund"
    /\ wf.t = 2
    /\ Gt(wf.A_bal, Zero)
    /\ Gt(wf.B_bal, Zero)
    /\ Gt(wf.C_bal, Zero)
    /\ Gt(wf.WH_bal, Zero)
    /\ Gt(wf.outstanding, Zero)

\* C3: freeze gating in the regime engine: liquidity_loss > 0 only on a path
\* that is frozen in the terminal month and whose refinance-failure draw
\* failed; a path not frozen in the terminal month has liquidity_loss = 0.
C3_FreezeGating ==
    variant = "regime" =>
        /\ Gt(rg.liquidity_loss, Zero) =>
              rg.in_freeze /\ rg.fail /\ is_terminal(rg.t, cfg.sim.H)
        /\ (PathDone /\ ~rg.in_freeze) => rg.liquidity_loss = Zero
        /\ PathDone => out[i].liquidity_loss = rg.liquidity_loss

C3_Witness ==
    /\ variant = "regime"
    /\ PathDone
    /\ rg.in_freeze
    /\ rg.fail
    /\ Gt(out[i].liquidity_loss, Zero)

\* C4: loss cascade in the waterfall engine, for total_loss >= 0: each tranche
\* loss is at most the tranche's balance at maturity, remaining_loss is
\* non-negative after each of the four steps, and the allocated losses sum to
\* at most total_loss.
C4_LossCascade ==
    (variant = "waterfall" /\ PathDone /\ Ge(wf.total_loss, Zero)) =>
        /\ Le(wf.C_loss, wf.C_bal)
        /\ Le(wf.B_loss, wf.B_bal)
        /\ Le(wf.A_loss, wf.A_bal)
        /\ Le(wf.WH_loss, wf.WH_bal)
        /\ \A k \in 1..4 : Ge(wf.remaining[k], Zero)
        /\ Le(Add(Add(Add(wf.A_loss, wf.B_loss), wf.C_loss), wf.WH_loss), wf.total_loss)

C4_Witness ==
    /\ variant = "waterfall"
    /\ PathDone
    /\ Gt(wf.total_loss, Zero)
    /\ Len(wf.remaining) = 4

\* a driver's sampled value lies within its configured bounds when they are ordered
WithinClip(value, d) ==
    Le(d.clip_min, d.clip_max) => Le(d.clip_min, value) /\ Le(value, d.clip_max)

\* C5: driver bounds: on every path and for all draws, each sampled driver lies
\* within its clip_min and clip_max whenever clip_min <= clip_max.
C5_DriverBounds ==
    Sampled =>
        /\ WithinClip(drv.default_rate, cfg.risk_engine.default_rate)
        /\ WithinClip(drv.lgd, cfg.risk_engine.lgd)
        /\ WithinClip(drv.margin_shock, cfg.risk_engine.margin_shock)

\* the result the path that just ended must have appended
PathResult ==
    IF variant = "regime" THEN regime_result(rg', Z, drv) ELSE waterfall_result(wf', drv)

\* C6: run_mc returns exactly N rows, and row k is the result of the k-th path
\* simulated: each path that ends appends its own result after the earlier rows.
C6_ExactlyNRows ==
    /\ [](pc = "returned" => Len(out) = cfg.sim.N)
    /\ [](pc \in {"loop", "returned"} => Len(out) = i)
    /\ [][i' = i + 1 => out' = Append(out, PathResult)]_vars

C6_Witness ==
    /\ pc = "returned"
    /\ cfg.sim.N = 2
    /\ Len(out) = 2
    /\ runs = 1

\* correlations in [0, 1] and clip_min <= clip_max, as RiskEngineConfig requires
ValidRiskEngine(re) ==
    /\ \A k \in {"rho_default", "rho_lgd", "rho_margin"} : Le(Zero, re[k]) /\ Le(re[k], One)
    /\ \A k \in {"default_rate", "lgd", "margin_shock"} : Le(re[k].clip_min, re[k].clip_max)

InvalidRiskEngineCfg ==
    /\ Has(cfg, "risk_engine")
    /\ RiskEngineKeys \subseteq DOMAIN cfg.risk_engine
    /\ ~ValidRiskEngine(cfg.risk_engine)

\* C7: an invalid risk-engine configuration fails fast: no draw is consumed, no
\* path is simulated and no table is returned.
C7_InvalidConfigFailsFast ==
    InvalidRiskEngineCfg =>
        /\ rng.pos = 0
        /\ sampler_calls = 0
        /\ out = <<>>
        /\ pc # "returned"

RequiredKeysPresent ==
    /\ Has(cfg, "seed")
    /\ Has(cfg, "sim") /\ Has(cfg.sim, "N") /\ Has(cfg.sim, "H")
    /\ Has(cfg, "portfolio")
    /\ Has(cfg.portfolio, "notional") /\ Has(cfg.portfolio, "annual_coupon_rate")
    /\ Has(cfg, "risk_engine") /\ RiskEngineKeys \subseteq DOMAIN cfg.risk_engine

\* C8: a missing required key fails fast: the error comes before any sampler
\* call and any draw; and run_mc returns either all N results or none.
C8_MissingKeysFailFast ==
    /\ (pc # "idle" /\ ~RequiredKeysPresent) =>
          /\ rng.pos = 0
          /\ sampler_calls = 0
          /\ out = <<>>
    /\ pc = "returned" => Len(out) = cfg.sim.N

\* C9: the regime engine never substitutes a built-in value for a funding
\* parameter the configuration does not give: such a run ends in an error.
C9_NoSilentDefaults ==
    (variant = "regime" /\ ~(FundingKeys \subseteq DOMAIN funding_cfg(cfg))) =>
        pc \notin {"month", "returned"} /\ i = 0

\* C10: freeze OFF: a run on apply_freeze_switch(cfg, False) is never in freeze
\* in any month of any path, and every row has liquidity_loss = 0.
C10_FreezeOff ==
    mode = "freeze_off" =>
        /\ ~rg.in_freeze
        /\ rg.liquidity_loss = Zero
        /\ \A k \in 1..Len(out) : out[k].liquidity_loss = Zero

C10_Witness ==
    /\ mode = "freeze_off"
    /\ pc = "returned"
    /\ Len(out) = 2
    /\ \E k \in 1..Len(stream[rng.key]) :
          drawlog[k].what = "freeze" /\ stream[rng.key][k] = 0

\* the draws of the run made for path p, in stream order
PathDraws(p) == SelectSeq(drawlog, LAMBDA d : d.path = p)

SamplerLabels == <<"Z", "e1", "e2", "e3">>

SimulatorLabels == {"freeze", "default", "noise", "refi"}

\* C11: one ordered random source: run_mc makes one generator from the seed,
\* once per run, and every draw of the run advances it by one; the draws of
\* path p all precede those of path p + 1; each path's draws are its systemic
\* draw, its three idiosyncratic draws, then its simulator's draws; and a run
\* that returns has made exactly N systemic draws, one per path.
C11_SingleOrderedSource ==
    /\ [](pc \notin {"idle", "enter", "error"} => rng.key = cfg.seed)
    /\ [](pc \notin {"idle", "enter"} => Len(drawlog) = rng.pos)
    /\ [](\A j \in 1..Len(drawlog), k \in 1..Len(drawlog) :
             j < k => drawlog[j].path <= drawlog[k].path)
    /\ [](\A p \in 0..MaxN :
             \A k \in 1..Len(PathDraws(p)) :
                IF k <= 4 THEN PathDraws(p)[k].what = SamplerLabels[k]
                          ELSE PathDraws(p)[k].what \in SimulatorLabels)
    /\ [](pc = "returned" =>
             Len(SelectSeq(drawlog, LAMBDA d : d.what = "Z")) = cfg.sim.N)
    /\ [][rng'.key # rng.key => pc = "enter"]_vars

C11_Witness ==
    /\ pc = "returned"
    /\ variant = "regime"
    /\ cfg.sim.N = 2
    /\ Len(PathDraws(0)) >= 6
    /\ Len(PathDraws(1)) >= 6
    /\ Len(drawlog) = rng.pos

\* the state a sampler call must leave alone: the configuration, the table,
\* the loop index, both simulators' locals and the session
SamplerFrame == <<variant, mode, cfg, i, out, rg, wf, prev, runs>>

\* the step is a sampler call that returns
SamplerReturns ==
    \/ pc = "systemic" /\ pc' = "params"
    \/ pc = "params" /\ pc' = "simulate"

\* the normal draws the sampler call of this step makes
SamplerDraws ==
    IF pc = "systemic" THEN 1 ELSE IF variant = "regime" THEN 3 ELSE 4

\* C12: sampling one path's drivers consumes exactly 4 normal draws, the
\* systemic one first and then the three idiosyncratic ones (the waterfall
\* _sample_params in one call, the regime _sample_systemic and _sample_params
\* as 1 + 3), the drivers returned are computed from these four draws, and the
\* call changes nothing but the position of the random source.
C12_SamplerDrawsFour ==
    /\ [][SamplerReturns =>
            /\ rng'.pos = rng.pos + SamplerDraws
            /\ rng'.key = rng.key
            /\ Len(drawlog') = Len(drawlog) + SamplerDraws
            /\ UNCHANGED SamplerFrame]_vars
    /\ [](pc = "simulate" =>
            LET s == stream[rng.key]
                b == rng.pos - 4
            IN  /\ b >= 0
                /\ Len(PathDraws(i)) = 4
                /\ \A k \in 1..4 : drawlog[b + k] = [path |-> i, what |-> SamplerLabels[k]]
                /\ Z = NormalOf(s[b + 1])
                /\ drv = sample_params(cfg.risk_engine, Z, NormalOf(s[b + 2]),
                                       NormalOf(s[b + 3]), NormalOf(s[b + 4])))

C12_Witness ==
    /\ pc = "simulate"
    /\ i = 1
    /\ rng.pos > 4
    /\ Len(PathDraws(1)) = 4
    /\ drv # NoDrivers

\* the uniform variates the model's generator can return
Uniforms == { UniformOf(r) : r \in Raw }

\* the path's term default probability has been computed, for a horizon of whole years
TermComputed == variant = "regime" /\ pc = "month" /\ cfg.sim.H % 12 = 0

\* C13 as stated: for H a multiple of 12, p_default_term is
\* clip(1 - (1 - default_rate)^(H/12), 0, 1) for every sampled default_rate.
C13_TermCompounding_Stated ==
    TermComputed =>
        term_value(rg.p_default_term) =
            NpClip(Sub(One, PowInt(Sub(One, drv.default_rate), cfg.sim.H \div 12)),
                   Zero, One)

\* C13: for H a multiple of 12, p_default_term is
\* clip(1 - (1 - clip(default_rate, 0, 1))^(H/12), 0, 1), the terminal default
\* draw is the Bernoulli trial of that probability, and the probability is
\* below the linear default_rate * H/12 whenever 0 < default_rate < 1 and
\* H > 12; default_rate = 0.02 and H = 36 give 0.058808.
C13_TermCompounding ==
    TermComputed =>
        LET k == cfg.sim.H \div 12
            dr == NpClip(drv.default_rate, Zero, One)
            p == term_value(rg.p_default_term)
        IN  /\ p = NpClip(Sub(One, PowInt(Sub(One, dr), k)), Zero, One)
            /\ \A u \in Uniforms : LtTerm(u, rg.p_default_term) <=> Lt(u, p)
            /\ (k > 1 /\ Lt(Zero, dr) /\ Lt(dr, One)) => Lt(p, Mul(dr, F(k)))
            /\ (k = 3 /\ dr = Q(1, 50)) => p = Q(58808, 1000000)

C13_Witness ==
    /\ TermComputed
    /\ cfg.sim.H = 36
    /\ drv.default_rate = Q(1, 50)
    /\ term_value(rg.p_default_term) = Q(7351, 125000)
    /\ Mul(drv.default_rate, F(3)) = Q(3, 50)

\* the waterfall engine is inside, or has just finished, a path of one month
OneMonthPath ==
    /\ variant = "waterfall"
    /\ pc \in {"fund", "accrue", "allocate"} \/ PathDone
    /\ cfg.sim.H = 1

\* C14: waterfall with H = 1: the funding draw is never executed, so A, B and C
\* are never drawn and have balance zero during the whole path; the path is the
\* single month 0 (accrual on the warehouse-funded notional, full repayment)
\* followed at once by the terminal loss allocation.
C14_OneMonthWaterfall ==
    /\ [](OneMonthPath =>
            /\ wf.t = 0
            /\ wf.A_bal = Zero /\ wf.B_bal = Zero /\ wf.C_bal = Zero
            /\ wf.draw_A = Zero /\ wf.draw_B = Zero /\ wf.draw_C = Zero)
    /\ []((OneMonthPath /\ PathDone) =>
            /\ wf.outstanding = Zero
            /\ wf.total_income =
                  Sub(Sub(Mul(cfg.portfolio.notional, coupon_m(cfg, drv.margin_shock)),
                          Mul(cfg.portfolio.notional, WH_rate)),
                      total_loss_of(cfg, drv)))
    /\ [][(OneMonthPath /\ pc = "fund") =>
            /\ wf'.A_bal = wf.A_bal /\ wf'.B_bal = wf.B_bal
            /\ wf'.C_bal = wf.C_bal /\ wf'.WH_bal = wf.WH_bal]_vars
    /\ [][(OneMonthPath /\ pc = "accrue") => pc' = "allocate"]_vars

C14_Witness ==
    /\ OneMonthPath
    /\ PathDone
    /\ wf.t = 0
    /\ Gt(wf.total_loss, Zero)
    /\ wf.C_loss = Zero
    /\ Lt(out[i].total_net_income, Zero)

\* C15: the loss cascade of the waterfall engine runs C, B, A, warehouse, each
\* tranche taking min(its balance at maturity, the loss still remaining); so
\* B_loss > 0 only if C lost its whole balance, A_loss > 0 only if B and C lost
\* theirs, and WH_loss > 0 only if A, B and C lost theirs.
C15_ReverseSeniority ==
    (variant = "waterfall" /\ PathDone) =>
        /\ wf.C_loss = PyMin(wf.C_bal, wf.total_loss)
        /\ wf.remaining[1] = Sub(wf.total_loss, wf.C_loss)
        /\ wf.B_loss = PyMin(wf.B_bal, wf.remaining[1])
        /\ wf.remaining[2] = Sub(wf.remaining[1], wf.B_loss)
        /\ wf.A_loss = PyMin(wf.A_bal, wf.remaining[2])
        /\ wf.remaining[3] = Sub(wf.remaining[2], wf.A_loss)
        /\ wf.WH_loss = PyMin(wf.WH_bal, wf.remaining[3])
        /\ Gt(wf.B_loss, Zero) => wf.C_loss = wf.C_bal
        /\ Gt(wf.A_loss, Zero) => wf.B_loss = wf.B_bal /\ wf.C_loss = wf.C_bal
        /\ Gt(wf.WH_loss, Zero) =>
              wf.A_loss = wf.A_bal /\ wf.B_loss = wf.B_bal /\ wf.C_loss = wf.C_bal

C15_Witness ==
    /\ variant = "waterfall"
    /\ PathDone
    /\ Gt(wf.C_bal, Zero) /\ Gt(wf.B_bal, Zero) /\ Gt(wf.A_bal, Zero)
    /\ wf.C_loss = wf.C_bal
    /\ wf.B_loss = wf.B_bal
    /\ Gt(wf.A_loss, Zero)
    /\ Lt(wf.A_loss, wf.A_bal)
    /\ wf.WH_loss = Zero
    /\ Gt(wf.WH_bal, Zero)

\* the funding the tranches are asked for at the start of a month
FundingNeeded == Sub(wf.outstanding, Add(Add(wf.A_bal, wf.B_bal), wf.C_bal))

\* C16: senior-first funding in the waterfall engine: in every month t > 0,
\* funding_needed = outstanding - (A + B + C) is drawn into A up to its limit,
\* then into B, then into C; so after the step a positive draw into B finds A
\* at its limit and a positive draw into C finds A and B at their limits; in
\* month 0 nothing is drawn.
C16_SeniorFirst ==
    /\ []((variant = "waterfall" /\ pc = "accrue") =>
            LET notional == cfg.portfolio.notional
            IN  /\ Gt(wf.draw_B, Zero) => wf.A_bal = A_limit(notional)
                /\ Gt(wf.draw_C, Zero) =>
                      wf.A_bal = A_limit(notional) /\ wf.B_bal = B_limit(notional)
                /\ wf.t = 0 =>
                      /\ wf.draw_A = Zero /\ wf.draw_B = Zero /\ wf.draw_C = Zero
                      /\ wf.A_bal = Zero /\ wf.B_bal = Zero /\ wf.C_bal = Zero)
    /\ [][(pc = "fund" /\ wf.t > 0) =>
            LET notional == cfg.portfolio.notional
            IN  /\ wf'.draw_A = PyMin(Sub(A_limit(notional), wf.A_bal), FundingNeeded)
                /\ wf'.draw_B = PyMin(Sub(B_limit(notional), wf.B_bal),
                                      Sub(FundingNeeded, wf'.draw_A))
                /\ wf'.draw_C = PyMin(Sub(C_limit(notional), wf.C_bal),
                                      Sub(Sub(FundingNeeded, wf'.draw_A), wf'.draw_B))
                /\ wf'.A_bal = Add(wf.A_bal, wf'.draw_A)
                /\ wf'.B_bal = Add(wf.B_bal, wf'.draw_B)
                /\ wf'.C_bal = Add(wf.C_bal, wf'.draw_C)]_vars

C16_Witness ==
    /\ variant = "waterfall"
    /\ pc = "accrue"
    /\ wf.t = 1
    /\ wf.A_bal = A_limit(cfg.portfolio.notional)
    /\ Gt(wf.draw_B, Zero)
    /\ Lt(wf.B_bal, B_limit(cfg.portfolio.notional))
    /\ wf.draw_C = Zero

\* the uniform variate the next draw of the run's generator returns
NextUniform == UniformOf(stream'[rng.key][rng.pos + 1])

\* the number of freeze transitions the draw log holds for path p
FreezeDraws(log, p) ==
    Len(SelectSeq(log, LAMBDA d : d.path = p /\ d.what = "freeze"))

\* C17: the freeze regime of the regime engine is a first-order Markov chain:
\* a path starts unfrozen; each month makes exactly one transition, drawn from
\* one uniform variate and the previous month's state alone: frozen stays
\* frozen iff u < p_freeze_persist, unfrozen freezes iff u < p_freeze_start; a
\* finished path has made H transitions.  With p_freeze_start = 0 no month is
\* frozen; with p_freeze_persist = 1 a frozen path stays frozen.
C17_FreezeMarkov ==
    /\ []((variant = "regime" /\ pc = "month" /\ rg.t = 0) => ~rg.in_freeze)
    /\ [][(variant = "regime" /\ pc = "month") =>
            /\ rg'.in_freeze =
                  IF rg.in_freeze
                    THEN Lt(NextUniform, funding_get(cfg, "p_freeze_persist"))
                    ELSE Lt(NextUniform, funding_get(cfg, "p_freeze_start"))
            /\ FreezeDraws(drawlog', i) = FreezeDraws(drawlog, i) + 1
            /\ drawlog'[rng.pos + 1].what = "freeze"
            /\ funding_get(cfg, "p_freeze_start") = Zero => ~rg'.in_freeze
            /\ (rg.in_freeze /\ funding_get(cfg, "p_freeze_persist") = One)
                  => rg'.in_freeze]_vars
    /\ []((variant = "regime" /\ PathDone) => FreezeDraws(drawlog, i - 1) = cfg.sim.H)
    /\ []((variant = "regime" /\ pc \in {"month", "loop", "returned"}
              /\ funding_get(cfg, "p_freeze_start") = Zero) => ~rg.in_freeze)

C17_Witness ==
    /\ variant = "regime"
    /\ PathDone
    /\ cfg.sim.H = 2
    /\ funding_get(cfg, "p_freeze_persist") = One
    /\ rg.in_freeze
    /\ drawlog[6].what = "freeze"
    /\ stream[rng.key][6] = 1

\* C18: order of the terminal draws of the regime engine: in a frozen terminal
\* month the refinance-failure uniform is drawn first, and the haircut noise
\* only after it and only when the refinance failed: every noise draw directly
\* follows the refinance draw of its path, and a frozen path whose refinance
\* does not fail draws no noise.
C18_TerminalDrawOrder ==
    variant = "regime" =>
        /\ \A k \in 1..Len(drawlog) :
              drawlog[k].what = "noise" =>
                 /\ k > 1
                 /\ drawlog[k - 1].what = "refi"
                 /\ drawlog[k - 1].path = drawlog[k].path
        /\ (PathDone /\ rg.in_freeze /\ ~rg.fail) =>
              \A k \in 1..Len(PathDraws(i - 1)) : PathDraws(i - 1)[k].what # "noise"

\* the coupon income of one month on the full notional
FullCoupon == Mul(cfg.portfolio.notional, coupon_m(cfg, drv.margin_shock))

\* C19: net income of the regime engine: on every path total_net_income =
\* H * notional * (annual_coupon_rate + margin_shock) / 12 - credit_loss -
\* liquidity_loss; outstanding equals notional in every month up to and
\* including the terminal accrual and is zero afterwards; each month adds the
\* coupon on the full notional and subtracts no funding cost.
C19_RegimeNetIncome ==
    /\ []((variant = "regime" /\ PathDone) =>
            /\ out[i].total_net_income =
                  Sub(Sub(Mul(F(cfg.sim.H), FullCoupon), out[i].credit_loss),
                      out[i].liquidity_loss)
            /\ rg.outstanding = Zero)
    /\ []((variant = "regime" /\ pc = "month") =>
            /\ rg.outstanding = cfg.portfolio.notional
            /\ rg.total_income = IF rg.t = 0 THEN Zero ELSE Mul(F(rg.t), FullCoupon))
    /\ [][(variant = "regime" /\ pc = "month") =>
            rg'.total_income =
               Sub(Add(rg.total_income, FullCoupon),
                   Add(rg'.credit_loss, rg'.liquidity_loss))]_vars

C19_Witness ==
    /\ variant = "regime"
    /\ PathDone
    /\ cfg.sim.H = 2
    /\ Gt(out[i].credit_loss, Zero)
    /\ Gt(out[i].liquidity_loss, Zero)
    /\ Gt(drv.margin_shock, Zero)
    /\ out[i].total_net_income =
          Sub(Mul(F(2), FullCoupon), Add(out[i].credit_loss, out[i].liquidity_loss))

\* the net income of the month that is accruing: coupon on the outstanding
\* principal less the cost of the four funding balances as they stand
MonthNet ==
    Sub(Mul(wf.outstanding,
            Div(Add(cfg.portfolio.annual_coupon_rate, drv.margin_shock), F(12))),
        Add(Add(Add(Mul(wf.A_bal, A_rate), Mul(wf.B_bal, B_rate)),
                Mul(wf.C_bal, C_rate)),
            Mul(wf.WH_bal, WH_rate)))

\* total_loss = notional * min(default_rate * H / 12, 1) * lgd
TerminalLoss ==
    Mul(Mul(cfg.portfolio.notional,
            PyMin(Mul(drv.default_rate, Q(cfg.sim.H, 12)), One)),
        drv.lgd)

\* C20: net income of the waterfall engine: total_net_income starts at zero;
\* in every month, month 0 included, it grows by outstanding * (annual_coupon_rate
\* + margin_shock)/12 minus the sum over A, B, C and the warehouse of balance *
\* monthly rate, taken on the balances after the month's funding draw and
\* before its repayment; the funding draw itself leaves it alone; after the H
\* months total_loss = notional * min(default_rate*H/12, 1) * lgd is
\* subtracted once, and the result is the row's total_net_income.
C20_WaterfallNetIncome ==
    /\ []((variant = "waterfall" /\ pc = "fund" /\ wf.t = 0) => wf.total_income = Zero)
    /\ [][(variant = "waterfall" /\ pc = "fund") =>
            wf'.total_income = wf.total_income]_vars
    /\ [][(variant = "waterfall" /\ pc = "accrue") =>
            wf'.total_income = Add(wf.total_income, MonthNet)]_vars
    /\ [][(variant = "waterfall" /\ pc = "allocate") =>
            /\ wf'.total_income = Sub(wf.total_income, TerminalLoss)
            /\ out'[i'].total_net_income = wf'.total_income]_vars

C20_Witness ==
    /\ variant = "waterfall"
    /\ PathDone
    /\ cfg.sim.H = 3
    /\ Gt(wf.total_loss, Zero)
    /\ wf.total_loss = TerminalLoss
    /\ out[i].total_net_income = wf.total_income

\* the number of draws the log holds for path p under the label what
LabelDraws(p, what) == Len(SelectSeq(PathDraws(p), LAMBDA d : d.what = what))

\* C21: the terminal event of a regime path happens in the final month only:
\* in every month before the terminal event credit_loss = 0, liquidity_loss =
\* 0 and outstanding = notional, and no default draw has been made; a finished
\* path has drawn exactly one default Bernoulli D, after the H-th freeze
\* transition, with credit_loss = notional * D * lgd: 0 or notional * lgd.
C21_TerminalOnly ==
    /\ (variant = "regime" /\ pc = "month") =>
          /\ rg.t <= cfg.sim.H - 1
          /\ rg.credit_loss = Zero
          /\ rg.liquidity_loss = Zero
          /\ rg.outstanding = cfg.portfolio.notional
          /\ LabelDraws(i, "default") = 0
          /\ LabelDraws(i, "freeze") = rg.t
    /\ (variant = "regime" /\ PathDone) =>
          /\ rg.t = cfg.sim.H - 1
          /\ LabelDraws(i - 1, "default") = 1
          /\ PathDraws(i - 1)[4 + cfg.sim.H + 1].what = "default"
          /\ rg.D \in {Zero, One}
          /\ out[i].credit_loss = Mul(Mul(cfg.portfolio.notional, rg.D), drv.lgd)
          /\ out[i].credit_loss \in {Zero, Mul(cfg.portfolio.notional, drv.lgd)}

C21_Witness ==
    /\ variant = "regime"
    /\ PathDone
    /\ cfg.sim.H = 2
    /\ rg.D = One
    /\ Gt(out[i].credit_loss, Zero)
    /\ out[i].credit_loss = Mul(cfg.portfolio.notional, out[i].lgd)
    /\ LabelDraws(i - 1, "default") = 1

\* the path has ended frozen, so the refinance cliff was evaluated
CliffDone == variant = "regime" /\ PathDone /\ rg.in_freeze

PFailCap == Q(199, 200)

\* C22: one-sided tail coupling: p_fail = clip(base_fail + fail_sens *
\* max(-Z, 0), 0, 0.995); a path with Z >= 0 has the p_fail of Z = 0, two
\* favourable systemic values give the same p_fail, p_fail does not increase
\* with Z when fail_sens >= 0, and p_fail never exceeds 0.995.
C22_OneSidedTail ==
    CliffDone =>
        LET base_fail == funding_get(cfg, "refinance_fail_prob")
            fail_sens == funding_get(cfg, "refinance_fail_sens")
        IN  /\ rg.p_fail =
                  NpClip(Add(base_fail, Mul(fail_sens, PyMax(Neg(Z), Zero))),
                         Zero, PFailCap)
            /\ Le(Zero, rg.p_fail) /\ Le(rg.p_fail, PFailCap)
            /\ Ge(Z, Zero) => rg.p_fail = NpClip(base_fail, Zero, PFailCap)
            /\ \A z1 \in TailZs, z2 \in TailZs :
                  /\ (Ge(z1, Zero) /\ Ge(z2, Zero)) =>
                        refinance_p_fail(cfg, z1) = refinance_p_fail(cfg, z2)
                  /\ (Le(z1, z2) /\ Ge(fail_sens, Zero)) =>
                        Ge(refinance_p_fail(cfg, z1), refinance_p_fail(cfg, z2))
                  /\ Le(refinance_p_fail(cfg, z1), PFailCap)

C22_Witness ==
    /\ CliffDone
    /\ Lt(Z, Zero)
    /\ rg.p_fail = PFailCap
    /\ Gt(funding_get(cfg, "refinance_fail_sens"), Zero)
    /\ Lt(refinance_p_fail(cfg, One), rg.p_fail)

\* the haircut noise a path that ended frozen has drawn: the draw before its last
CliffNoise == NormalOf(stream[rng.key][rng.pos - 1])

\* C23: forced-sale loss of the regime engine: on a path that is frozen at the
\* terminal month and whose refinance fails, liquidity_loss = notional *
\* haircut, the haircut being clipped to [haircut_min, haircut_max], hence
\* notional * haircut_min <= liquidity_loss <= notional * haircut_max; on every
\* other path liquidity_loss = 0.
C23_ForcedSaleLoss ==
    (variant = "regime" /\ PathDone) =>
        LET notional == cfg.portfolio.notional
            hair_min == funding_get(cfg, "haircut_min")
            hair_max == funding_get(cfg, "haircut_max")
        IN  IF rg.in_freeze /\ rg.fail
              THEN /\ out[i].liquidity_loss = Mul(notional, rg.hc)
                   /\ rg.hc =
                         NpClip(Add(Add(funding_get(cfg, "forced_sale_haircut"),
                                        Mul(funding_get(cfg, "haircut_sens"),
                                            PyMax(Neg(Z), Zero))),
                                    Mul(funding_get(cfg, "haircut_noise"), CliffNoise)),
                                hair_min, hair_max)
                   /\ Le(hair_min, rg.hc) /\ Le(rg.hc, hair_max)
                   /\ Le(Mul(notional, hair_min), out[i].liquidity_loss)
                   /\ Le(out[i].liquidity_loss, Mul(notional, hair_max))
              ELSE out[i].liquidity_loss = Zero

C23_Witness ==
    /\ CliffDone
    /\ rg.fail
    /\ rg.hc = funding_get(cfg, "haircut_min")
    /\ Gt(funding_get(cfg, "forced_sale_haircut"), funding_get(cfg, "haircut_min"))
    /\ out[i].liquidity_loss = Mul(cfg.portfolio.notional, funding_get(cfg, "haircut_min"))
    /\ Gt(out[i].liquidity_loss, Zero)

\* the standard normal variates the model's generator can return
Normals == { NormalOf(r) : r \in Raw }

\* the k-th of the four normal draws of the path whose simulator is being entered
PathNormal(k) == NormalOf(stream[rng.key][rng.pos - 4 + k])

\* C24: the sampler's transforms: default_rate = clip(base + shock_coef *
\* (-z_default), clip_min, clip_max) and lgd likewise, margin_shock =
\* clip(shock_coef * z_margin, clip_min, clip_max) without a base term; for
\* shock_coef >= 0, default_rate and lgd do not increase with their driver z.
C24_SamplerTransform ==
    (pc = "simulate") =>
        LET re == cfg.risk_engine
            dr == re.default_rate
            lg == re.lgd
            ms == re.margin_shock
            z_default == z_driver(re.rho_default, Z, PathNormal(2))
            z_lgd == z_driver(re.rho_lgd, Z, PathNormal(3))
            z_margin == z_driver(re.rho_margin, Z, PathNormal(4))
        IN  /\ drv.default_rate =
                  NpClip(Add(dr.base, Mul(dr.shock_coef, Neg(z_default))),
                         dr.clip_min, dr.clip_max)
            /\ drv.lgd =
                  NpClip(Add(lg.base, Mul(lg.shock_coef, Neg(z_lgd))),
                         lg.clip_min, lg.clip_max)
            /\ drv.margin_shock =
                  NpClip(Mul(ms.shock_coef, z_margin), ms.clip_min, ms.clip_max)
            /\ \A Za \in Normals, ea \in Normals, Zb \in Normals, eb \in Normals :
                  /\ (Ge(dr.shock_coef, Zero)
                         /\ Le(z_driver(re.rho_default, Za, ea),
                               z_driver(re.rho_default, Zb, eb))) =>
                        Ge(sample_default_rate(re, Za, ea), sample_default_rate(re, Zb, eb))
                  /\ (Ge(lg.shock_coef, Zero)
                         /\ Le(z_driver(re.rho_lgd, Za, ea),
                               z_driver(re.rho_lgd, Zb, eb))) =>
                        Ge(sample_lgd(re, Za, ea), sample_lgd(re, Zb, eb))

C24_Witness ==
    /\ pc = "simulate"
    /\ ValidRiskEngine(cfg.risk_engine)
    /\ Lt(cfg.risk_engine.default_rate.clip_min, drv.default_rate)
    /\ Lt(drv.default_rate, cfg.risk_engine.default_rate.base)
    /\ Gt(drv.lgd, cfg.risk_engine.lgd.base)
    /\ Lt(drv.lgd, cfg.risk_engine.lgd.clip_max)
    /\ Lt(PathNormal(3), Zero)

\* the margin driver of the path whose simulator is being entered
ZMargin == z_driver(cfg.risk_engine.rho_margin, Z, PathNormal(4))

\* the margin shock a driver of zero gives
MarginAtZero ==
    NpClip(Zero, cfg.risk_engine.margin_shock.clip_min,
           cfg.risk_engine.margin_shock.clip_max)

\* the sampler has returned with a positive margin coefficient and a negative driver
BadMarginDraw ==
    /\ pc = "simulate"
    /\ Gt(cfg.risk_engine.margin_shock.shock_coef, Zero)
    /\ Lt(ZMargin, Zero)

\* C25: sign convention of the margin driver: with a positive margin shock
\* coefficient, a negative z_margin increases margin_shock: the margin_shock
\* of a negative z_margin is at least the one of z_margin = 0, as for
\* default_rate and lgd.
C25_MarginSign ==
    BadMarginDraw => Ge(drv.margin_shock, MarginAtZero)

\* the total funding balance of the month that is accruing
TotalBal == Add(Add(Add(wf.A_bal, wf.B_bal), wf.C_bal), wf.WH_bal)

\* what the repayment of the month takes from one balance
Reduction(k) == Sub(wf[k], wf'[k])

\* C26: pro-rata amortization in the waterfall engine: each month the
\* repayment notional / H is taken from A, B, C and the warehouse in
\* proportion to each balance's share of the total funding balance: a zero
\* balance is reduced by zero and the four reductions sum to notional / H;
\* when the total funding balance is not positive nothing is divided and the
\* four balances stay as they are; outstanding falls by notional / H.
C26_ProRata ==
    [][(variant = "waterfall" /\ pc = "accrue") =>
         LET repay == Div(cfg.portfolio.notional, F(cfg.sim.H))
             Tranches == {"A_bal", "B_bal", "C_bal", "WH_bal"}
         IN  /\ wf'.outstanding = Sub(wf.outstanding, repay)
             /\ IF Gt(TotalBal, Zero)
                   THEN /\ \A k \in Tranches :
                             /\ Reduction(k) = Div(Mul(repay, wf[k]), TotalBal)
                             /\ wf[k] = Zero => wf'[k] = Zero
                        /\ Add(Add(Add(Reduction("A_bal"), Reduction("B_bal")),
                                    Reduction("C_bal")), Reduction("WH_bal")) = repay
                   ELSE \A k \in Tranches : wf'[k] = wf[k]]_vars

C26_Witness ==
    /\ variant = "waterfall"
    /\ pc = "fund"
    /\ wf.t = 2
    /\ cfg.sim.H = 3
    /\ Gt(wf.A_bal, Zero)
    /\ Gt(wf.B_bal, Zero)
    /\ wf.C_bal = Zero
    /\ wf.draw_C = Zero
    /\ Add(wf.A_bal, wf.B_bal) = wf.outstanding

\* C27: paths share no mutable state but the random source: whatever the
\* previous path left behind, a regime path starts with in_freeze = false,
\* outstanding = notional, income and losses 0, and a waterfall path with A =
\* B = C = 0, warehouse = outstanding = notional, income 0; and run_mc never
\* changes the configuration it was given.
C27_FreshPaths ==
    /\ []((variant = "regime" /\ pc = "month" /\ rg.t = 0) =>
            /\ ~rg.in_freeze
            /\ rg.outstanding = cfg.portfolio.notional
            /\ rg.total_income = Zero
            /\ rg.credit_loss = Zero
            /\ rg.liquidity_loss = Zero)
    /\ []((variant = "waterfall" /\ pc = "fund" /\ wf.t = 0) =>
            /\ wf.A_bal = Zero /\ wf.B_bal = Zero /\ wf.C_bal = Zero
            /\ wf.WH_bal = cfg.portfolio.notional
            /\ wf.outstanding = cfg.portfolio.notional
            /\ wf.total_income = Zero)
    /\ [][pc # "idle" => cfg' = cfg]_vars

C27_Witness ==
    /\ variant = "regime"
    /\ pc = "month"
    /\ rg.t = 0
    /\ i = 1
    /\ Gt(out[1].credit_loss, Zero)
    /\ out[1].total_net_income # Zero
    /\ rg.credit_loss = Zero
    /\ rg.total_income = Zero

\* C28: every row, in both engines, records the path's sampled drivers as the
\* sampler produced them: the systemic factor Z, default_rate, lgd and
\* margin_shock of the row are the values sampled for that path.
C28_RowRecordsDrivers ==
    PathDone =>
        /\ Has(out[i], "Z_sys")
        /\ out[i].Z_sys = Z
        /\ out[i].default_rate = drv.default_rate
        /\ out[i].lgd = drv.lgd
        /\ out[i].margin_shock = drv.margin_shock

\* the limits and monthly rates the funding section of the configuration sets
ConfiguredLimit(k) ==
    Mul(cfg.portfolio.notional, cfg.funding[k].limit_fraction_of_notional)

ConfiguredRate(k) == Div(cfg.funding[k].funding_rate_annual, F(12))

ConfiguredCost ==
    Add(Add(Add(Mul(wf.A_bal, ConfiguredRate("A")), Mul(wf.B_bal, ConfiguredRate("B"))),
            Mul(wf.C_bal, ConfiguredRate("C"))),
        Mul(wf.WH_bal, ConfiguredRate("WH")))

\* C29: the waterfall engine takes each tranche's limit (as a fraction of
\* notional) and annual funding rate from the funding section of the
\* configuration: no cascade balance exceeds its configured limit, and the month's
\* funding cost charges every balance at its configured annual rate over twelve.
C29_ConfiguredTranches ==
    [][(variant = "waterfall" /\ pc = "accrue" /\ cfg \in TrancheCfgs) =>
          /\ Le(wf.A_bal, ConfiguredLimit("A"))
          /\ Le(wf.B_bal, ConfiguredLimit("B"))
          /\ Le(wf.C_bal, ConfiguredLimit("C"))
          /\ wf'.total_income =
                Add(wf.total_income,
                    Sub(Mul(wf.outstanding, coupon_m(cfg, drv.margin_shock)),
                        ConfiguredCost))]_vars

\* C30: the simulation is gated behind the Run Simulation button, but the first
\* render of a session runs it once without the button having been clicked: the
\* script run that finds no has_run in the session state starts the simulation,
\* and a later script run starts it only with has_run set.
C30_FirstRenderRuns ==
    [][session_state' # session_state =>
          /\ session_state = EmptyDict => pc' = "enter"
          /\ pc' = "enter" => session_state'.has_run]_vars

\* what deep_update must give for key k of dicts d and u whose values are
\* numbers or sections of numbers
MergedSection(ds, us) ==
    [j \in DOMAIN ds \cup DOMAIN us |-> IF j \in DOMAIN us THEN us[j] ELSE ds[j]]

MergedValue(d, u, k) ==
    IF k \notin DOMAIN u THEN d[k]
    ELSE IF k \in DOMAIN d /\ d[k] \in MergeSections /\ u[k] \in MergeSections
           THEN MergedSection(d[k], u[k])
           ELSE u[k]

\* C31: deep_update(d, u) merges recursively and touches only the keys u
\* mentions: a key of d, at any depth, that u does not mention keeps its value,
\* a dict in u is merged into a dict in d instead of replacing it, and any
\* other value of u replaces the one in d.
C31_DeepUpdate ==
    pc = "built" =>
        /\ DOMAIN cfg = DOMAIN base_cfg \cup DOMAIN cfg_overrides
        /\ base_cfg \in MergeDicts =>
              \A k \in DOMAIN cfg : cfg[k] = MergedValue(base_cfg, cfg_overrides, k)
        /\ base_cfg = DeepCfg =>
              /\ cfg.seed = DeepCfg.seed
              /\ cfg.sim.N = DeepCfg.sim.N
              /\ cfg.sim.grid =
                    IF cfg_overrides.sim.grid \in MergeLeaves
                      THEN cfg_overrides.sim.grid
                      ELSE MergedSection(DeepCfg.sim.grid, cfg_overrides.sim.grid)

\* overriding sim.N keeps sim.H
C31_Witness ==
    /\ pc = "built"
    /\ base_cfg = [seed |-> F(1), sim |-> [N |-> F(1), H |-> F(2)]]
    /\ cfg_overrides = [sim |-> [N |-> F(2)]]
    /\ cfg = [seed |-> F(1), sim |-> [N |-> F(2), H |-> F(2)]]

C33_DrawsPerPath ==
    PathDone =>
        IF variant = "regime"
          THEN LET cliff == IF rg.in_freeze THEN 1 ELSE 0
               IN  /\ Len(PathDraws(i - 1)) = 4 + cfg.sim.H + 1 + 2 * cliff
                   /\ \A k \in 1..4 : PathDraws(i - 1)[k].what = SamplerLabels[k]
                   /\ LabelDraws(i - 1, "freeze") = cfg.sim.H
                   /\ LabelDraws(i - 1, "default") = 1
                   /\ LabelDraws(i - 1, "noise") = cliff
                   /\ LabelDraws(i - 1, "refi") = cliff
          ELSE /\ Len(PathDraws(i - 1)) = 4
               /\ \A k \in 1..4 : PathDraws(i - 1)[k].what = SamplerLabels[k]

\* a path frozen at the terminal month whose refinance does not fail, and that
\* has made the two draws of the cliff all the same
C33_Witness ==
    /\ variant = "regime"
    /\ PathDone
    /\ cfg.sim.H = MaxH
    /\ rg.in_freeze
    /\ ~rg.fail
    /\ Len(PathDraws(i - 1)) = 4 + cfg.sim.H + 3
    /\ LabelDraws(i - 1, "noise") = 1

\* the run is the second of a pair on one seed and configuration, with more paths
MorePaths ==
    /\ runs = 2
    /\ prev.variant = variant
    /\ prev.cfg = [cfg EXCEPT !.sim.N = prev.cfg.sim.N]
    /\ prev.cfg.sim.N < cfg.sim.N

\* C34: prefix stability under a change of N, in both engines: for one seed and
\* configuration and N1 < N2, the first N1 rows of the run with N2 paths are
\* the N1 rows of the run with N1 paths; more paths never change earlier rows.
C34_PrefixStable ==
    MorePaths =>
        /\ Len(prev.out) = prev.cfg.sim.N
        /\ \A k \in 1..Len(out) : k <= Len(prev.out) => out[k] = prev.out[k]
        /\ pc = "returned" =>
              /\ Len(out) = cfg.sim.N
              /\ SubSeq(out, 1, prev.cfg.sim.N) = prev.out

\* a regime pair whose first path froze, so that it made two draws more, and
\* whose second path gave another row
C34_Witness ==
    /\ MorePaths
    /\ variant = "regime"
    /\ pc = "returned"
    /\ Len(PathDraws(0)) = 8
    /\ Len(out) = 2
    /\ out[1] = prev.out[1]
    /\ out[2] # out[1]

\* a waterfall path is in its months or has just been allocated
InWaterfallPath ==
    variant = "waterfall" /\ (pc \in {"fund", "accrue", "allocate"} \/ PathDone)

\* C35: tranche capacity in the waterfall engine: at every step of every path
\* 0 <= A_bal <= 0.6 * notional, 0 <= B_bal <= 0.2 * notional, 0 <= C_bal <=
\* 0.1 * notional and WH_bal >= 0, and every funding draw is non-negative; the
\* warehouse balance is not held to its 10% limit: it starts at the notional.
C35_TrancheCapacity ==
    InWaterfallPath =>
        LET notional == cfg.portfolio.notional
        IN  /\ Le(Zero, wf.A_bal) /\ Le(wf.A_bal, Mul(Q(6, 10), notional))
            /\ Le(Zero, wf.B_bal) /\ Le(wf.B_bal, Mul(Q(2, 10), notional))
            /\ Le(Zero, wf.C_bal) /\ Le(wf.C_bal, Mul(Q(1, 10), notional))
            /\ Le(Zero, wf.WH_bal)
            /\ Le(Zero, wf.draw_A) /\ Le(Zero, wf.draw_B) /\ Le(Zero, wf.draw_C)
            /\ (pc \in {"fund", "accrue"} /\ wf.t = 0) => wf.WH_bal = notional
            /\ (pc = "accrue" /\ wf.t = 0 /\ Gt(notional, Zero)) =>
                  Gt(wf.WH_bal, Mul(Q(1, 10), notional))

\* the three tranches drawn to their limits in the second month of a year
C35_Witness ==
    /\ variant = "waterfall"
    /\ pc = "accrue"
    /\ cfg.sim.H = LongH
    /\ wf.t = 1
    /\ Gt(wf.draw_A, Zero) /\ Gt(wf.draw_B, Zero) /\ Gt(wf.draw_C, Zero)
    /\ wf.A_bal = Mul(Q(6, 10), cfg.portfolio.notional)
    /\ wf.B_bal = Mul(Q(2, 10), cfg.portfolio.notional)
    /\ wf.C_bal = Mul(Q(1, 10), cfg.portfolio.notional)

\* C36: the warehouse is the residual funder of the waterfall engine: after
\* the funding draw of a month t > 0, WH_bal > 0 only with A, B and C exactly
\* at their limits, and outstanding <= 0.9 * notional gives WH_bal = 0.
C36_ResidualFunder ==
    (variant = "waterfall" /\ pc = "accrue" /\ wf.t > 0) =>
        LET notional == cfg.portfolio.notional
        IN  /\ Gt(wf.WH_bal, Zero) =>
                  /\ wf.A_bal = Mul(Q(6, 10), notional)
                  /\ wf.B_bal = Mul(Q(2, 10), notional)
                  /\ wf.C_bal = Mul(Q(1, 10), notional)
            /\ Le(wf.outstanding, Mul(Q(9, 10), notional)) => wf.WH_bal = Zero

C36_Witness ==
    /\ variant = "waterfall"
    /\ pc = "accrue"
    /\ wf.t = 1
    /\ Gt(wf.WH_bal, Zero)
    /\ Gt(wf.outstanding, Mul(Q(9, 10), cfg.portfolio.notional))
    /\ Add(Add(wf.A_bal, wf.B_bal), wf.C_bal) = Mul(Q(9, 10), cfg.portfolio.notional)

\* the raw output of the generator that the last finished path read k draws
\* before its last
LastDraw(k) == stream[rng.key][rng.pos - k]

\* C37: the credit event and the liquidity event of a regime path are
\* evaluated independently: the default draw is made on every path whatever
\* the freeze state and alone decides D; the refinance failure is evaluated on
\* every path frozen at the terminal month whatever D is, and its own draw alone
\* decides it; so both losses can be positive on one path, and credit_loss +
\* liquidity_loss <= notional * (lgd + haircut_max).
C37_IndependentEvents ==
    (variant = "regime" /\ PathDone) =>
        LET notional == cfg.portfolio.notional
            cliff == IF rg.in_freeze THEN 1 ELSE 0
        IN  /\ LabelDraws(i - 1, "default") = 1
            /\ LabelDraws(i - 1, "refi") = cliff
            /\ rg.D = IF LtTerm(UniformOf(LastDraw(2 * cliff)), rg.p_default_term)
                         THEN One ELSE Zero
            /\ rg.credit_loss = Mul(Mul(notional, rg.D), drv.lgd)
            /\ rg.in_freeze =>
                  /\ rg.fail = Lt(UniformOf(LastDraw(0)), rg.p_fail)
                  /\ rg.liquidity_loss =
                        IF rg.fail THEN Sub(notional, Mul(notional, Sub(One, rg.hc)))
                                   ELSE Zero
            /\ ~rg.in_freeze => rg.liquidity_loss = Zero
            /\ Le(Add(rg.credit_loss, rg.liquidity_loss),
                  Mul(notional, Add(drv.lgd, funding_get(cfg, "haircut_max"))))

\* a path that both defaulted and failed to refinance
C37_Witness ==
    /\ variant = "regime"
    /\ PathDone
    /\ rg.D = One
    /\ rg.in_freeze
    /\ rg.fail
    /\ Gt(out[i].credit_loss, Zero)
    /\ Gt(out[i].liquidity_loss, Zero)

====
